---- MODULE Spec2Model ----
(***************************************************************************)
(* IIIF manifest -> CSL-JSON conversion (iiif_to_csl_core_1_1_0_fruittimer), *)
(* the batch retrieval pipeline iiifManifestUrlsToCSL, and the CSL -> Zotero *)
(* command-line program (iiif_to_zotero_local_cli_0_2_0).                    *)
(*                                                                          *)
(* JavaScript strings are sequences of one-character strings, so that trim, *)
(* split, toLowerCase and the regular expressions are computed character by *)
(* character.  A JSON value is a record [t, s, e, ks]:                      *)
(*   t   the JavaScript type: undef, null, bool, num, str, arr, obj         *)
(*   s   the text of a str, the decimal text of a num, true/false of a bool *)
(*   e   the elements of an arr, the property values of an obj              *)
(*   ks  the property names of an obj, in iteration order                   *)
(***************************************************************************)
EXTENDS Integers, Sequences, FiniteSets, TLC

VARIABLES
    \* ---- one call of iiifManifestUrlsToCSL
    variant,        \* "core" (fetchWithTimeout) or "bundle" (wrapper, plain fetch)
    argument,       \* the value passed as manifestUrls (any JSON value)
    manifestUrls,   \* the elements of the argument when it is an array
    idx,            \* position of the for-of loop in manifestUrls
    pc,             \* where the async function is suspended
    items,          \* const items = []
    timerArmed,     \* setTimeout(...) pending in fetchWithTimeout
    inflight,       \* positions whose retrieval has been issued and not settled
    issued,         \* positions for which fetchManifest was called, in call order
    outcome,        \* per position: "pending", "skipped", "failed", "ok"
    served,         \* per position: the manifest retrieved and parsed (0: none)
    errlog,         \* positions for which console.error("Error processing ...") ran
    \* ---- one call of a conversion function
    manifest,       \* the manifest argument
    manifestUrl,    \* the manifestUrl argument (a JSON value, Undef when absent)
    op,             \* the function applied ("none" before the call)
    arg,            \* the extra argument of the call (keyCandidates), or <<>>
    ret,            \* what the call returned (or Thrown)
    \* ---- one run of the Zotero command-line program (main)
    cliMode,        \* "csl" (--csl file given) or "iiif" (manifest URLs given)
    cslFile,        \* the --csl file: unreadable, malformed, or its parsed JSON
    cliOpts,        \* parseArgs: postWebAPI, credentials given, --out given
    cliPc,          \* where main stands
    cslItems,       \* let cslItems = []
    zoteroItems,    \* const zoteroItems = []
    mapIdx,         \* position of the mapping loop in cslItems
    upload,         \* "none", "skipped", "sent", "ok", "rejected", "threw"
    written,        \* the output: not written, write failed, or the items written
    exitCode,       \* "running", 0 or 1
    cliLog,         \* positions of cslItems for which "Error converting CSL item" was logged
    \* ---- one call of sniffManifestUrls (the sniffer)
    nodes,          \* root.querySelectorAll(SELECTOR_REFERRERS), in document order
    location        \* document.location.href (Undef where there is no document)

vars == <<variant, argument, manifestUrls, idx, pc, items, timerArmed, inflight,
          issued, outcome, served, errlog, manifest, manifestUrl, op, arg, ret,
          cliMode, cslFile, cliOpts, cliPc, cslItems, zoteroItems, mapIdx, upload,
          written, exitCode, cliLog, nodes, location>>

pipeVars == <<variant, argument, manifestUrls, idx, pc, items, timerArmed, inflight,
              issued, outcome, served, errlog>>

cliVars == <<cliMode, cslFile, cliOpts, cliPc, cslItems, zoteroItems, mapIdx, upload,
             written, exitCode, cliLog>>

domVars == <<nodes, location>>

callVars == <<manifest, manifestUrl, op, arg, ret>>

-----------------------------------------------------------------------------
(* String literals of the source.                                          *)

S_null == <<"n","u","l","l">>
S_undefined == <<"u","n","d","e","f","i","n","e","d">>
S_true == <<"t","r","u","e">>
S_false == <<"f","a","l","s","e">>
S_objectObject == <<"[","o","b","j","e","c","t"," ","O","b","j","e","c","t","]">>
S_manuscript == <<"m","a","n","u","s","c","r","i","p","t">>
S_codex == <<"c","o","d","e","x">>
S_ms == <<"m","s">>
S_article == <<"a","r","t","i","c","l","e">>
S_journal == <<"j","o","u","r","n","a","l">>
S_periodical == <<"p","e","r","i","o","d","i","c","a","l">>
S_book == <<"b","o","o","k">>
S_article_journal == <<"a","r","t","i","c","l","e","-","j","o","u","r","n","a","l">>
S_Type == <<"T","y","p","e">>
S_type == <<"t","y","p","e">>
S_Author == <<"A","u","t","h","o","r">>
S_Authors == <<"A","u","t","h","o","r","s">>
S_Creator == <<"C","r","e","a","t","o","r">>
S_Creators == <<"C","r","e","a","t","o","r","s">>
S_author == <<"a","u","t","h","o","r">>
S_creator == <<"c","r","e","a","t","o","r">>
S_Date == <<"D","a","t","e">>
S_PublicationDate == <<"P","u","b","l","i","c","a","t","i","o","n"," ","D","a","t","e">>
S_date == <<"d","a","t","e">>
S_Issued == <<"I","s","s","u","e","d">>
S_Publisher == <<"P","u","b","l","i","s","h","e","r">>
S_publisher == <<"p","u","b","l","i","s","h","e","r">>
S_Institution == <<"I","n","s","t","i","t","u","t","i","o","n">>
S_HoldingInstitution == <<"H","o","l","d","i","n","g"," ","I","n","s","t","i","t","u","t","i","o","n">>
S_Repository == <<"R","e","p","o","s","i","t","o","r","y">>
S_created == <<"c","r","e","a","t","e","d">>
S_published == <<"p","u","b","l","i","s","h","e","d">>
S_by == <<"b","y">>
S_for == <<"f","o","r">>
S_untitled == <<"[","u","n","t","i","t","l","e","d"," ","I","I","I","F"," ","m","a","n","i","f","e","s","t","]">>
S_iiif_io == <<"i","i","i","f",".","i","o">>
S_NoteHeading == <<"I","I","I","F"," ","m","a","n","i","f","e","s","t"," ","m","e","t","a","d","a","t","a">>
S_NoteRule == <<"=","=","=","=","=","=","=","=","=","=","=","=","=","=","=","=","=","=","=","=","=","=">>
S_ManifestURL == <<"M","a","n","i","f","e","s","t"," ","U","R","L",":"," ">>
S_AtId == <<"@","i","d",":"," ">>
S_AtContext == <<"@","c","o","n","t","e","x","t",":"," ">>
S_IIIFmetadata == <<"I","I","I","F"," ","m","e","t","a","d","a","t","a",":">>
S_Q == <<"?">>
S_ColonSp == <<":"," ">>

-----------------------------------------------------------------------------
(* JavaScript string primitives.                                           *)

UpperLetters == <<"A","B","C","D","E","F","G","H","I","J","K","L","M",
                  "N","O","P","Q","R","S","T","U","V","W","X","Y","Z">>

LowerLetters == <<"a","b","c","d","e","f","g","h","i","j","k","l","m",
                  "n","o","p","q","r","s","t","u","v","w","x","y","z">>

Digits == {"0","1","2","3","4","5","6","7","8","9"}

\* The characters String.prototype.trim strips and \s matches.
IsSpace(c) == c \in {" ", "\n", "\t", "\r"}

\* The characters \w matches (the complement decides \b).
IsWordChar(c) ==
    \/ c \in Digits
    \/ c = "_"
    \/ \E k \in 1..26 : c = UpperLetters[k] \/ c = LowerLetters[k]

LowerChar(c) ==
    IF \E k \in 1..26 : c = UpperLetters[k]
    THEN LowerLetters[CHOOSE k \in 1..26 : c = UpperLetters[k]]
    ELSE c

\* String.prototype.toLowerCase
ToLowerCase(s) == [k \in 1..Len(s) |-> LowerChar(s[k])]

\* A trim that takes at most one white-space character off each end.
Trim_oneEach(s) ==
    LET lo == IF s # <<>> /\ IsSpace(s[1]) THEN 2 ELSE 1
        hi == IF Len(s) >= lo /\ IsSpace(s[Len(s)]) THEN Len(s) - 1 ELSE Len(s)
    IN  SubSeq(s, lo, hi)

\* String.prototype.trim
Trim(s) ==
    LET keep == {k \in 1..Len(s) : ~IsSpace(s[k])}
    IN  IF keep = {} THEN <<>>
        ELSE LET lo == CHOOSE k \in keep : \A j \in keep : k <= j
                 hi == CHOOSE k \in keep : \A j \in keep : k >= j
             IN  SubSeq(s, lo, hi)

\* sub occurs in s at position k
OccursAt(s, sub, k) ==
    /\ k >= 1
    /\ k + Len(sub) - 1 <= Len(s)
    /\ \A j \in 1..Len(sub) : s[k + j - 1] = sub[j]

\* String.prototype.includes / an unanchored literal regular expression
Contains(s, sub) == \E k \in 1..(Len(s) + 1) : OccursAt(s, sub, k)

StartsWith(s, sub) == OccursAt(s, sub, 1)

RECURSIVE Join(_, _)
\* Array.prototype.join(sep)
Join(pieces, sep) ==
    IF pieces = <<>> THEN <<>>
    ELSE IF Len(pieces) = 1 THEN pieces[1]
    ELSE pieces[1] \o sep \o Join(Tail(pieces), sep)

RECURSIVE SplitRuns(_, _, _)
\* String.prototype.split(/[<seps>]+/): cur is the piece being read; a maximal
\* run of separator characters ends it (an empty first or last piece is kept).
SplitRuns(s, seps, cur) ==
    IF s = <<>> THEN <<cur>>
    ELSE IF Head(s) \in seps
         THEN LET rest == Tail(s)
                  run  == {k \in 0..Len(rest) : \A j \in 1..k : rest[j] \in seps}
                  n    == CHOOSE k \in run : \A j \in run : k >= j
              IN  <<cur>> \o SplitRuns(SubSeq(rest, n + 1, Len(rest)), seps, <<>>)
         ELSE SplitRuns(Tail(s), seps, Append(cur, Head(s)))

-----------------------------------------------------------------------------
(* JSON values.                                                            *)

Undef == [t |-> "undef", s |-> <<>>, e |-> <<>>, ks |-> <<>>]

Null == [t |-> "null", s |-> <<>>, e |-> <<>>, ks |-> <<>>]

JStr(s) == [t |-> "str", s |-> s, e |-> <<>>, ks |-> <<>>]

JNum(s) == [t |-> "num", s |-> s, e |-> <<>>, ks |-> <<>>]

JBool(b) == [t |-> "bool", s |-> IF b THEN S_true ELSE S_false, e |-> <<>>, ks |-> <<>>]

JArr(e) == [t |-> "arr", s |-> <<>>, e |-> e, ks |-> <<>>]

JObj(ks, e) == [t |-> "obj", s |-> <<>>, e |-> e, ks |-> ks]

\* ToBoolean: what `!v`, `v || w` and `if (v)` test.
Truthy(v) ==
    CASE v.t = "undef" -> FALSE
      [] v.t = "null"  -> FALSE
      [] v.t = "bool"  -> v.s = S_true
      [] v.t = "num"   -> v.s # <<"0">>
      [] v.t = "str"   -> v.s # <<>>
      [] OTHER         -> TRUE

\* a || b
Or(a, b) == IF Truthy(a) THEN a ELSE b

RECURSIVE StringOf(_)
\* String(v) and template-literal interpolation
StringOf(v) ==
    CASE v.t = "undef" -> S_undefined
      [] v.t = "null"  -> S_null
      [] v.t = "obj"   -> S_objectObject
      [] v.t = "arr"   ->
            Join([k \in 1..Len(v.e) |->
                     IF v.e[k].t \in {"undef", "null"} THEN <<>>
                     ELSE StringOf(v.e[k])], <<",">>)
      [] OTHER         -> v.s

\* `key in v` for a non-null object v
HasKey(v, key) == v.t = "obj" /\ \E k \in 1..Len(v.ks) : v.ks[k] = key

\* v.key / v["key"] for a v that is neither null nor undefined; the properties
\* read by the source (label, value, id, @id, href, @value) exist on objects only.
Get(v, key) ==
    IF HasKey(v, key) THEN v.e[CHOOSE k \in 1..Len(v.ks) : v.ks[k] = key]
    ELSE Undef

\* Reading a property of null or undefined throws a TypeError.
PropertyReadThrows(v) == v.t \in {"undef", "null"}

-----------------------------------------------------------------------------
(* iiifLabelToString                                                       *)

\* A language map read under its first key only.
LangMapPieces_firstKey(label, k) ==
    IF k > 1 \/ k > Len(label.ks) \/ label.e[k].t # "arr" THEN <<>>
    ELSE LET keep == SelectSeq(label.e[k].e, Truthy)
         IN  [j \in 1..Len(keep) |-> StringOf(keep[j])]

RECURSIVE LangMapPieces(_, _)
\* for (const lang in label) { if (Array.isArray(vals)) for (v of vals) if (v) push }
LangMapPieces(label, k) ==
    IF k > Len(label.ks) THEN <<>>
    ELSE LET vals == label.e[k]
             here == IF vals.t = "arr"
                     THEN LET keep == SelectSeq(vals.e, Truthy)
                          IN  [j \in 1..Len(keep) |-> StringOf(keep[j])]
                     ELSE <<>>
         IN  here \o LangMapPieces(label, k + 1)

RECURSIVE ArrayPieces(_)
\* for (const item of label) { "@value" in item ? item["@value"] : item != null }
ArrayPieces(elems) ==
    IF elems = <<>> THEN <<>>
    ELSE LET item == Head(elems)
             here == IF item.t \in {"obj", "arr"} /\ HasKey(item, "@value")
                     THEN <<StringOf(Get(item, "@value"))>>
                     ELSE IF item.t \notin {"undef", "null"}
                          THEN <<StringOf(item)>>
                          ELSE <<>>
         IN  here \o ArrayPieces(Tail(elems))

iiifLabelToString(label) ==
    IF ~Truthy(label) THEN <<>>
    ELSE IF label.t = "obj" THEN Trim(Join(LangMapPieces(label, 1), <<" ">>))
    ELSE IF label.t = "arr" THEN Trim(Join(ArrayPieces(label.e), <<" ">>))
    ELSE IF label.t = "str" THEN Trim(label.s)
    ELSE Trim(StringOf(label))

-----------------------------------------------------------------------------
(* A call either returns a value or throws.                                *)

Thrown == [thrown |-> TRUE, v |-> <<>>]

Returned(v) == [thrown |-> FALSE, v |-> v]

-----------------------------------------------------------------------------
(* getFirstMetadataValue                                                   *)

\* const metadata = manifest.metadata || [];
MetadataOf(m) == Or(m.metadata, JArr(<<>>))

\* for (const entry of metadata): arrays and strings are iterable; an object,
\* a number or `true` is not, and the loop header throws a TypeError.
IsIterable(v) == v.t \in {"arr", "str"}

\* The values a for-of loop visits: the elements of an array, the characters
\* of a string.
IterationOf(v) ==
    IF v.t = "arr" THEN v.e
    ELSE [k \in 1..Len(v.s) |-> JStr(<<v.s[k]>>)]

\* for (const key of keyCandidates) if (labelStr.toLowerCase() === key.toLowerCase())
MatchesCandidate(labelStr, keyCandidates) ==
    \E k \in 1..Len(keyCandidates) :
        ToLowerCase(labelStr) = ToLowerCase(keyCandidates[k])

RECURSIVE ScanMetadata_firstLabel(_, _)
\* A scan that stops at the first entry whose label matches, whatever its value.
ScanMetadata_firstLabel(entries, keyCandidates) ==
    IF entries = <<>> THEN Returned(<<>>)
    ELSE LET entry == Head(entries)
         IN  IF PropertyReadThrows(entry) THEN Thrown
             ELSE IF MatchesCandidate(iiifLabelToString(Get(entry, "label")), keyCandidates)
                  THEN Returned(iiifLabelToString(Get(entry, "value")))
                  ELSE ScanMetadata_firstLabel(Tail(entries), keyCandidates)

RECURSIVE ScanMetadata(_, _)
\* The body of the outer loop: entries in document order; the first entry whose
\* label matches some candidate and whose value is non-empty is returned.
ScanMetadata(entries, keyCandidates) ==
    IF entries = <<>> THEN Returned(<<>>)
    ELSE LET entry == Head(entries)
         IN  IF PropertyReadThrows(entry) THEN Thrown
             ELSE LET labelStr == iiifLabelToString(Get(entry, "label"))
                      valueStr == iiifLabelToString(Get(entry, "value"))
                  IN  IF MatchesCandidate(labelStr, keyCandidates) /\ valueStr # <<>>
                      THEN Returned(valueStr)
                      ELSE ScanMetadata(Tail(entries), keyCandidates)

RECURSIVE ScanCandidates(_, _)
\* A lookup in which the candidate list is the outer loop: the first candidate
\* (in the caller's order) that some entry answers with a non-empty value wins.
ScanCandidates(entries, keyCandidates) ==
    IF keyCandidates = <<>> THEN Returned(<<>>)
    ELSE LET r == ScanMetadata(entries, <<Head(keyCandidates)>>)
         IN  IF r.thrown \/ r.v # <<>> THEN r
             ELSE ScanCandidates(entries, Tail(keyCandidates))

getFirstMetadataValue_candidateFirst(m, keyCandidates) ==
    LET metadata == MetadataOf(m)
    IN  IF ~IsIterable(metadata) THEN Thrown
        ELSE ScanCandidates(IterationOf(metadata), keyCandidates)

getFirstMetadataValue(m, keyCandidates) ==
    LET metadata == MetadataOf(m)
    IN  IF ~IsIterable(metadata) THEN Thrown
        ELSE ScanMetadata(IterationOf(metadata), keyCandidates)

-----------------------------------------------------------------------------
(* inferTypeFromMetadata                                                   *)

\* The pattern without the word boundary: /manuscript|codex|ms/
ManuscriptRE_noBoundary(h) ==
    \/ Contains(h, S_manuscript)
    \/ Contains(h, S_codex)
    \/ Contains(h, S_ms)

\* /manuscript|codex|ms\b/ : "ms" counts only when a word boundary follows it.
ManuscriptRE(h) ==
    \/ Contains(h, S_manuscript)
    \/ Contains(h, S_codex)
    \/ \E k \in 1..Len(h) :
          /\ OccursAt(h, S_ms, k)
          /\ (k + 2 > Len(h) \/ ~IsWordChar(h[k + 2]))

\* /article|journal|periodical/
ArticleRE(h) ==
    \/ Contains(h, S_article)
    \/ Contains(h, S_journal)
    \/ Contains(h, S_periodical)

\* (label + " " + descCandidates.join(" ")).toLowerCase()
Haystack(m, typeStr) ==
    LET label == iiifLabelToString(m.label)
        descCandidates ==
            SelectSeq(<<iiifLabelToString(m.description), typeStr>>,
                      LAMBDA x : x # <<>>)
    IN  ToLowerCase(label \o <<" ">> \o Join(descCandidates, <<" ">>))

\* The two tests in the opposite order.
ClassifyHaystack_articleFirst(h) ==
    IF ArticleRE(h) THEN S_article_journal
    ELSE IF ManuscriptRE(h) THEN S_manuscript
    ELSE S_book

\* The two tests in the order of the source.
ClassifyHaystack(h) ==
    IF ManuscriptRE(h) THEN S_manuscript
    ELSE IF ArticleRE(h) THEN S_article_journal
    ELSE S_book

inferTypeFromMetadata(m) ==
    LET t == getFirstMetadataValue(m, <<S_Type, S_type>>)
    IN  IF t.thrown THEN Thrown
        ELSE Returned(ClassifyHaystack(Haystack(m, t.v)))

-----------------------------------------------------------------------------
(* extractAuthors                                                          *)

AuthorCandidates == <<S_Author, S_Authors, S_Creator, S_Creators, S_author, S_creator>>

\* A split that takes the first word as the family name.
NameToAuthor_firstIsFamily(nameStr) ==
    LET tokens == SplitRuns(nameStr, {" ", "\n", "\t", "\r"}, <<>>)
    IN  IF Len(tokens) = 1 THEN [family |-> tokens[1]]
        ELSE [given  |-> Join(Tail(tokens), <<" ">>),
              family |-> tokens[1]]

\* nameStr.split(/\s+/), then last word = family, rest = given
NameToAuthor(nameStr) ==
    LET tokens == SplitRuns(nameStr, {" ", "\n", "\t", "\r"}, <<>>)
    IN  IF Len(tokens) = 1 THEN [family |-> tokens[1]]
        ELSE [given  |-> Join(SubSeq(tokens, 1, Len(tokens) - 1), <<" ">>),
              family |-> tokens[Len(tokens)]]

\* creatorsRaw.split(/[;\n]+/).map(p => p.trim()).filter(Boolean)
NameParts(creatorsRaw) ==
    LET pieces  == SplitRuns(creatorsRaw, {";", "\n"}, <<>>)
        trimmed == [k \in 1..Len(pieces) |-> Trim(pieces[k])]
    IN  SelectSeq(trimmed, LAMBDA x : x # <<>>)

extractAuthors(m) ==
    LET creatorsRaw == getFirstMetadataValue(m, AuthorCandidates)
    IN  IF creatorsRaw.thrown THEN Thrown
        ELSE IF creatorsRaw.v = <<>> THEN Returned(<<>>)
        ELSE LET parts == NameParts(creatorsRaw.v)
             IN  Returned([k \in 1..Len(parts) |-> NameToAuthor(parts[k])])

-----------------------------------------------------------------------------
(* extractDate                                                             *)

DateCandidates == <<S_Date, S_PublicationDate, S_date, S_Issued>>

\* The lookahead \s*(w1|w2|...) at position k of s.
FollowedBy(s, k, words) ==
    \E n \in 0..Len(s) :
        /\ \A j \in k..(k + n - 1) : j <= Len(s) /\ IsSpace(s[j])
        /\ \E w \in words : OccursAt(s, w, k + n)

\* (created(?!\s*by)|published(?!\s*(by|for))) matched at position k of the
\* lower-cased s: the positions right after the match.
DateWordEnds(s, k) ==
    {e \in 1..(Len(s) + 1) :
        \/ /\ OccursAt(s, S_created, k)
           /\ e = k + Len(S_created)
           /\ ~FollowedBy(s, e, {S_by})
        \/ /\ OccursAt(s, S_published, k)
           /\ e = k + Len(S_published)
           /\ ~FollowedBy(s, e, {S_by, S_for})}

\* CREATED_PUBLISHED_LABEL_RE.test(labelStr), flag i:
\* ^word([-\/\s]+word)?$
CREATED_PUBLISHED_LABEL_RE(labelStr) ==
    LET s == ToLowerCase(labelStr)
    IN  \E e1 \in DateWordEnds(s, 1) :
            \/ e1 = Len(s) + 1
            \/ \E n \in 1..Len(s) :
                  /\ \A j \in e1..(e1 + n - 1) :
                        j <= Len(s) /\ (s[j] \in {"-", "/"} \/ IsSpace(s[j]))
                  /\ Len(s) + 1 \in DateWordEnds(s, e1 + n)

RECURSIVE ScanDateLabels(_)
\* Step 2 of extractDate: the value of the first entry with a created/published
\* label and a non-empty value ("" when every such entry has an empty value).
ScanDateLabels(entries) ==
    IF entries = <<>> THEN Returned(<<>>)
    ELSE LET entry == Head(entries)
         IN  IF PropertyReadThrows(entry) THEN Thrown
             ELSE LET labelStr == iiifLabelToString(Get(entry, "label"))
                      dateStr  == iiifLabelToString(Get(entry, "value"))
                  IN  IF CREATED_PUBLISHED_LABEL_RE(labelStr) /\ dateStr # <<>>
                      THEN Returned(dateStr)
                      ELSE ScanDateLabels(Tail(entries))

\* A match of (1[0-9]{3}|20[0-9]{2}) at position k
YearAt(s, k) ==
    /\ k + 3 <= Len(s)
    /\ \/ s[k] = "1" /\ \A j \in 1..3 : s[k + j] \in Digits
       \/ s[k] = "2" /\ s[k + 1] = "0" /\ \A j \in 2..3 : s[k + j] \in Digits

\* A year pattern that takes four digits only when no word character adjoins
\* them, as /\b(1[0-9]{3}|20[0-9]{2})\b/ would.
YearOrRaw_wholeWord(dateStr) ==
    LET hits == {k \in 1..Len(dateStr) :
                    /\ YearAt(dateStr, k)
                    /\ (k = 1 \/ ~IsWordChar(dateStr[k - 1]))
                    /\ (k + 4 > Len(dateStr) \/ ~IsWordChar(dateStr[k + 4]))}
    IN  IF hits # {}
        THEN LET k == CHOOSE h \in hits : \A j \in hits : h <= j
             IN  SubSeq(dateStr, k, k + 3)
        ELSE Trim(dateStr)

\* dateStr.match(/(1[0-9]{3}|20[0-9]{2})/) ? m[1] : dateStr.trim()
YearOrRaw(dateStr) ==
    LET hits == {k \in 1..Len(dateStr) : YearAt(dateStr, k)}
    IN  IF hits # {}
        THEN LET k == CHOOSE h \in hits : \A j \in hits : h <= j
             IN  SubSeq(dateStr, k, k + 3)
        ELSE Trim(dateStr)

\* An extractDate that tries the created/published labels first.
extractDate_createdFirst(m) ==
    LET metadata == MetadataOf(m)
        first    == IF ~IsIterable(metadata) THEN Thrown
                    ELSE ScanDateLabels(IterationOf(metadata))
    IN  IF first.thrown THEN Thrown
        ELSE LET second == IF first.v # <<>> THEN first
                           ELSE getFirstMetadataValue(m, DateCandidates)
             IN  IF second.thrown THEN Thrown
                 ELSE IF second.v = <<>> THEN Returned(<<>>)
                 ELSE Returned(YearOrRaw(second.v))

extractDate(m) ==
    LET first == getFirstMetadataValue(m, DateCandidates)
    IN  IF first.thrown THEN Thrown
        ELSE LET metadata == MetadataOf(m)
                 second   == IF first.v # <<>> THEN first
                             ELSE IF ~IsIterable(metadata) THEN Thrown
                             ELSE ScanDateLabels(IterationOf(metadata))
             IN  IF second.thrown THEN Thrown
                 ELSE IF second.v = <<>> THEN Returned(<<>>)
                 ELSE Returned(YearOrRaw(second.v))

-----------------------------------------------------------------------------
(* extractPublisher                                                        *)

PublisherCandidates ==
    <<S_Publisher, S_publisher, S_Institution, S_HoldingInstitution, S_Repository>>

extractPublisher(m) == getFirstMetadataValue(m, PublisherCandidates)

-----------------------------------------------------------------------------
(* extractHomepageURL                                                      *)

\* pickId: the first of id, @id, href that is a string (even an empty one)
pickId(obj) ==
    IF ~Truthy(obj) \/ obj.t \notin {"obj", "arr"} THEN <<>>
    ELSE IF Get(obj, "id").t = "str" THEN Get(obj, "id").s
    ELSE IF Get(obj, "@id").t = "str" THEN Get(obj, "@id").s
    ELSE IF Get(obj, "href").t = "str" THEN Get(obj, "href").s
    ELSE <<>>

\* One of the two blocks `if (homepage) {...}` / `if (related) {...}`:
\* [found |-> the block executed a return, v |-> the string returned].
ResolveLink(link) ==
    IF ~Truthy(link) THEN [found |-> FALSE, v |-> <<>>]
    ELSE IF link.t = "str" THEN [found |-> TRUE, v |-> link.s]
    ELSE IF link.t = "arr" /\ Len(link.e) > 0
         THEN LET first == link.e[1]
              IN  IF first.t = "str" THEN [found |-> TRUE, v |-> first.s]
                  ELSE [found |-> pickId(first) # <<>>, v |-> pickId(first)]
    ELSE IF link.t \in {"obj", "arr"}
         THEN [found |-> pickId(link) # <<>>, v |-> pickId(link)]
    ELSE [found |-> FALSE, v |-> <<>>]

\* A lookup that reads `related` before `homepage`.
extractHomepageURL_relatedFirst(m) ==
    IF ResolveLink(m.related).found THEN ResolveLink(m.related).v
    ELSE IF ResolveLink(m.homepage).found THEN ResolveLink(m.homepage).v
    ELSE <<>>

extractHomepageURL(m) ==
    IF ResolveLink(m.homepage).found THEN ResolveLink(m.homepage).v
    ELSE IF ResolveLink(m.related).found THEN ResolveLink(m.related).v
    ELSE <<>>

-----------------------------------------------------------------------------
(* buildIiifNote                                                           *)

RECURSIVE NoteLines_everyEntry(_)
\* A loop that writes a line for every entry, also one without label and value.
NoteLines_everyEntry(entries) ==
    IF entries = <<>> THEN Returned(<<>>)
    ELSE LET entry == Head(entries)
         IN  IF PropertyReadThrows(entry) THEN Thrown
             ELSE LET k    == iiifLabelToString(Get(entry, "label"))
                      v    == iiifLabelToString(Get(entry, "value"))
                      rest == NoteLines_everyEntry(Tail(entries))
                  IN  IF rest.thrown THEN Thrown
                      ELSE Returned(<<(IF k # <<>> THEN k ELSE S_Q) \o S_ColonSp \o v>>
                                    \o rest.v)

RECURSIVE NoteLines(_)
\* for (const entry of metadata) { if (k || v) lines.push(`${k || "?"}: ${v}`) }
NoteLines(entries) ==
    IF entries = <<>> THEN Returned(<<>>)
    ELSE LET entry == Head(entries)
         IN  IF PropertyReadThrows(entry) THEN Thrown
             ELSE LET k    == iiifLabelToString(Get(entry, "label"))
                      v    == iiifLabelToString(Get(entry, "value"))
                      here == IF k # <<>> \/ v # <<>>
                              THEN <<(IF k # <<>> THEN k ELSE S_Q) \o S_ColonSp \o v>>
                              ELSE <<>>
                      rest == NoteLines(Tail(entries))
                  IN  IF rest.thrown THEN Thrown ELSE Returned(here \o rest.v)

\* metadata.length > 0: an array or a string has a length; the objects,
\* numbers and booleans drawn here have none (undefined > 0 is false).
HasPositiveLength(v) ==
    \/ v.t = "arr" /\ Len(v.e) > 0
    \/ v.t = "str" /\ Len(v.s) > 0

\* A note without the three heading lines.
buildIiifNote_noHeading(m, url) ==
    LET urlLine  == IF Truthy(url) THEN <<S_ManifestURL \o StringOf(url)>> ELSE <<>>
        idLine   == IF Truthy(m.atid) THEN <<S_AtId \o StringOf(m.atid)>> ELSE <<>>
        ctxLine  == IF Truthy(m.context)
                    THEN <<S_AtContext \o StringOf(m.context)>> ELSE <<>>
        metadata == MetadataOf(m)
        body     == IF HasPositiveLength(metadata)
                    THEN NoteLines(IterationOf(metadata))
                    ELSE Returned(<<>>)
        block    == IF HasPositiveLength(metadata)
                    THEN <<<<>>, S_IIIFmetadata>> \o body.v
                    ELSE <<>>
    IN  IF body.thrown THEN Thrown
        ELSE Returned(Trim(Join(urlLine \o idLine \o ctxLine \o block, <<"\n">>)))

buildIiifNote(m, url) ==
    LET head     == <<S_NoteHeading, S_NoteRule, <<>>>>
        urlLine  == IF Truthy(url) THEN <<S_ManifestURL \o StringOf(url)>> ELSE <<>>
        idLine   == IF Truthy(m.atid) THEN <<S_AtId \o StringOf(m.atid)>> ELSE <<>>
        ctxLine  == IF Truthy(m.context)
                    THEN <<S_AtContext \o StringOf(m.context)>> ELSE <<>>
        metadata == MetadataOf(m)
        body     == IF HasPositiveLength(metadata)
                    THEN NoteLines(IterationOf(metadata))
                    ELSE Returned(<<>>)
        block    == IF HasPositiveLength(metadata)
                    THEN <<<<>>, S_IIIFmetadata>> \o body.v
                    ELSE <<>>
    IN  IF body.thrown THEN Thrown
        ELSE Returned(Trim(Join(head \o urlLine \o idLine \o ctxLine \o block,
                                <<"\n">>)))

-----------------------------------------------------------------------------
(* trimManifestDirectory                                                   *)

S_http == <<"h","t","t","p",":","/","/">>

S_https == <<"h","t","t","p","s",":","/","/">>

\* Length of the "scheme://" prefix, 0 when the string has none.
SchemePrefixLen(s) ==
    IF StartsWith(s, S_https) THEN Len(S_https)
    ELSE IF StartsWith(s, S_http) THEN Len(S_http)
    ELSE 0

\* new URL(s) succeeds.  The strings drawn are absolute http(s) URLs with a
\* lower-case host and no dot segments, or strings with no scheme at all
\* (relative references), for which the constructor throws.
UrlParses(s) ==
    /\ SchemePrefixLen(s) > 0
    /\ Len(s) > SchemePrefixLen(s)
    /\ s[SchemePrefixLen(s) + 1] \notin {"/", "?", "#"}

\* The least position >= from holding one of chars, Len(s) + 1 when none.
FirstIndexOf(s, chars, from) ==
    LET hits == {k \in from..Len(s) : s[k] \in chars}
    IN  IF hits = {} THEN Len(s) + 1
        ELSE CHOOSE k \in hits : \A j \in hits : k <= j

RECURSIVE SplitOn(_, _, _)
\* String.prototype.split("/"): every separator ends a piece
SplitOn(s, sep, cur) ==
    IF s = <<>> THEN <<cur>>
    ELSE IF Head(s) = sep THEN <<cur>> \o SplitOn(Tail(s), sep, <<>>)
    ELSE SplitOn(Tail(s), sep, Append(cur, Head(s)))

\* u.pathname of the parsed URL ("/" when the URL has no path)
PathnameOf(s) ==
    LET hostEnd == FirstIndexOf(s, {"/", "?", "#"}, SchemePrefixLen(s) + 1)
        pathEnd == FirstIndexOf(s, {"?", "#"}, hostEnd)
    IN  IF pathEnd = hostEnd THEN <<"/">> ELSE SubSeq(s, hostEnd, pathEnd - 1)

\* scheme://host of the parsed URL
OriginOf(s) ==
    SubSeq(s, 1, FirstIndexOf(s, {"/", "?", "#"}, SchemePrefixLen(s) + 1) - 1)

\* The path surgery between `u.pathname.split("/")` and `u.pathname = newPath`
ParentPath(pathname) ==
    LET parts0 == SplitOn(pathname, "/", <<>>)
        parts1 == IF Len(parts0) > 1 /\ parts0[Len(parts0)] = <<>>
                  THEN SubSeq(parts0, 1, Len(parts0) - 1) ELSE parts0
        parts2 == IF Len(parts1) > 1
                  THEN SubSeq(parts1, 1, Len(parts1) - 1) ELSE parts1
        newPath == Join(parts2, <<"/">>)
    IN  IF StartsWith(newPath, <<"/">>) THEN newPath ELSE <<"/">> \o newPath

trimManifestDirectory(url) ==
    IF ~Truthy(url) THEN <<>>
    ELSE LET s == StringOf(url)
         IN  IF UrlParses(s) THEN OriginOf(s) \o ParentPath(PathnameOf(s))
             ELSE s

-----------------------------------------------------------------------------
(* extractIdFromManifest, manifestToCSLItem                                *)

extractIdFromManifest(m, url) ==
    IF Truthy(m.atid) THEN StringOf(m.atid)
    ELSE IF Truthy(m.id) THEN StringOf(m.id)
    ELSE IF Truthy(url) THEN StringOf(url)
    ELSE iiifLabelToString(m.label)

\* a || b || c on strings
FirstNonEmpty(a, b, c) == IF a # <<>> THEN a ELSE IF b # <<>> THEN b ELSE c

\* A title computed without the final literal.
TitleOf_noPlaceholder(m, url) ==
    FirstNonEmpty(iiifLabelToString(m.label), extractIdFromManifest(m, url), <<>>)

\* const title = iiifLabelToString(label) || extractIdFromManifest(..) || "[untitled..]"
TitleOf(m, url) ==
    FirstNonEmpty(iiifLabelToString(m.label), extractIdFromManifest(m, url), S_untitled)

\* const id = extractIdFromManifest(manifest, manifestUrl) || title
IdOf(m, url) == FirstNonEmpty(extractIdFromManifest(m, url), TitleOf(m, url), <<>>)

\* A URL that prefers manifest.id to manifest["@id"].
UrlOf_idBeforeAtId(m, url) ==
    Or(JStr(extractHomepageURL(m)),
       Or(m.id, Or(m.atid, Or(JStr(trimManifestDirectory(url)), JStr(<<>>)))))

\* URL: homepage || manifest["@id"] || manifest.id || trimmedManifestUrl || ""
UrlOf(m, url) ==
    Or(JStr(extractHomepageURL(m)),
       Or(m.atid, Or(m.id, Or(JStr(trimManifestDirectory(url)), JStr(<<>>)))))

EmptyObject == [k \in {} |-> <<>>]

\* An item on which publisher is assigned unconditionally.
BuildCslItem_alwaysPublisher(m, url, authors, issuedStr, publisher, type, note) ==
    [id |-> IdOf(m, url), type |-> type, title |-> TitleOf(m, url),
     URL |-> UrlOf(m, url), publisher |-> publisher]
        @@ (IF Len(authors) > 0 THEN [author |-> authors] ELSE EmptyObject)
        @@ (IF issuedStr # <<>>
            THEN [issued |-> ("date-parts" :> <<<<issuedStr>>>>)]
            ELSE EmptyObject)
        @@ (IF note # <<>> THEN [note |-> note] ELSE EmptyObject)

\* The object literal and the four conditional assignments of manifestToCSLItem.
BuildCslItem(m, url, authors, issuedStr, publisher, type, note) ==
    [id |-> IdOf(m, url), type |-> type, title |-> TitleOf(m, url),
     URL |-> UrlOf(m, url)]
        @@ (IF Len(authors) > 0 THEN [author |-> authors] ELSE EmptyObject)
        @@ (IF issuedStr # <<>>
            THEN [issued |-> ("date-parts" :> <<<<issuedStr>>>>)]
            ELSE EmptyObject)
        @@ (IF publisher # <<>> THEN [publisher |-> publisher] ELSE EmptyObject)
        @@ (IF note # <<>> THEN [note |-> note] ELSE EmptyObject)

manifestToCSLItem(m, url) ==
    LET authors   == extractAuthors(m)
        issuedStr == extractDate(m)
        publisher == extractPublisher(m)
        type      == inferTypeFromMetadata(m)
        note      == buildIiifNote(m, url)
    IN  IF \/ authors.thrown \/ issuedStr.thrown \/ publisher.thrown
           \/ type.thrown \/ note.thrown
        THEN Thrown
        ELSE Returned(BuildCslItem(m, url, authors.v, issuedStr.v, publisher.v,
                                   type.v, note.v))

-----------------------------------------------------------------------------
(* CSL -> Zotero mapping (iiif_to_zotero_local_cli_0_2_0):                 *)
(* mapCslTypeToZoteroItemType, mapCslAuthorsToCreators,                    *)
(* mapCslIssuedToZoteroDate, cslToZoteroItem                               *)

S_journalArticle == <<"j","o","u","r","n","a","l","A","r","t","i","c","l","e">>
S_constructor == <<"c","o","n","s","t","r","u","c","t","o","r">>
S_proto == <<"_","_","p","r","o","t","o","_","_">>
S_untitledZotero == <<"[","u","n","t","i","t","l","e","d","]">>
S_authorType == <<"a","u","t","h","o","r">>

\* A JavaScript function value (truthy, no JSON form).
JFn == [t |-> "fn", s |-> <<>>, e |-> <<>>, ks |-> <<>>]

\* MAP[t] on the object literal MAP: its three own properties, and the
\* properties every object literal inherits from Object.prototype whose names
\* a lower-cased string can equal (constructor: the Object function;
\* __proto__: Object.prototype itself).
TypeMapGet(t) ==
    CASE t = S_book            -> JStr(S_book)
      [] t = S_article_journal -> JStr(S_journalArticle)
      [] t = S_manuscript      -> JStr(S_manuscript)
      [] t = S_constructor     -> JFn
      [] t = S_proto           -> JObj(<<>>, <<>>)
      [] OTHER                 -> Undef

\* (cslType || "").toLowerCase() throws on a truthy value that is no string;
\* if (MAP[t]) return MAP[t]; return "book"
mapCslTypeToZoteroItemType(cslType) ==
    LET v == Or(cslType, JStr(<<>>))
    IN  IF v.t # "str" THEN Thrown
        ELSE LET t == ToLowerCase(v.s)
             IN  IF Truthy(TypeMapGet(t)) THEN Returned(TypeMapGet(t))
                 ELSE Returned(JStr(S_book))

\* (a.key || "").trim(): throws when a is null or undefined, or when the
\* property is a truthy value that is no string.
TrimmedField(a, key) ==
    IF PropertyReadThrows(a) THEN Thrown
    ELSE LET v == Or(Get(a, key), JStr(<<>>))
         IN  IF v.t # "str" THEN Thrown ELSE Returned(Trim(v.s))

\* A creator whose lastName is always the family name.
CreatorOf_noFallback(given, family, literal) ==
    IF family # <<>> \/ given # <<>>
    THEN <<[creatorType |-> S_authorType, firstName |-> given, lastName |-> family]>>
    ELSE IF literal # <<>>
    THEN <<[creatorType |-> S_authorType, firstName |-> <<>>, lastName |-> literal]>>
    ELSE <<>>

\* The body of the loop over authors: the creator pushed for one author (a
\* list of one), or nothing (`continue`).
CreatorOf(given, family, literal) ==
    IF family # <<>> \/ given # <<>>
    THEN <<[creatorType |-> S_authorType, firstName |-> given,
            lastName |-> IF family # <<>> THEN family ELSE given]>>
    ELSE IF literal # <<>>
    THEN <<[creatorType |-> S_authorType, firstName |-> <<>>, lastName |-> literal]>>
    ELSE <<>>

RECURSIVE CreatorsOf(_)
\* for (const a of authors) { ... creators.push(...) }
CreatorsOf(authors) ==
    IF authors = <<>> THEN Returned(<<>>)
    ELSE LET a       == Head(authors)
             given   == TrimmedField(a, "given")
             family  == TrimmedField(a, "family")
             literal == TrimmedField(a, "literal")
         IN  IF given.thrown \/ family.thrown \/ literal.thrown THEN Thrown
             ELSE LET rest == CreatorsOf(Tail(authors))
                  IN  IF rest.thrown THEN Thrown
                      ELSE Returned(CreatorOf(given.v, family.v, literal.v) \o rest.v)

\* const authors = Array.isArray(cslItem.author) ? cslItem.author : [];
mapCslAuthorsToCreators(cslItem) ==
    LET author == Get(cslItem, "author")
    IN  CreatorsOf(IF author.t = "arr" THEN author.e ELSE <<>>)

\* A padStart that leaves the text as it is.
PadStart2_none(str) == str

\* String(x).padStart(2, "0")
PadStart2(str) ==
    IF Len(str) >= 2 THEN str
    ELSE IF Len(str) = 1 THEN <<"0">> \o str
    ELSE <<"0", "0">>

\* The element k of a destructured array, undefined beyond its end.
ElementOf(arr, k) == IF k <= Len(arr.e) THEN arr.e[k] ELSE Undef

mapCslIssuedToZoteroDate(cslItem) ==
    LET issuedObj == Get(cslItem, "issued")
        dateParts == IF Truthy(issuedObj) THEN Get(issuedObj, "date-parts") ELSE Undef
    IN  IF ~Truthy(issuedObj) \/ dateParts.t # "arr" THEN <<>>
        ELSE LET parts == ElementOf(dateParts, 1)
             IN  IF parts.t # "arr" \/ Len(parts.e) = 0 THEN <<>>
                 ELSE LET y == ElementOf(parts, 1)
                          m == ElementOf(parts, 2)
                          d == ElementOf(parts, 3)
                      IN  IF ~Truthy(y) THEN <<>>
                          ELSE StringOf(y)
                               \o (IF m.t \notin {"undef", "null"}
                                   THEN <<"-">> \o PadStart2(StringOf(m))
                                        \o (IF d.t \notin {"undef", "null"}
                                            THEN <<"-">> \o PadStart2(StringOf(d))
                                            ELSE <<>>)
                                   ELSE <<>>)

\* if (cslItem[from]) zotItem[to] = cslItem[from];
CopyIfTruthy(cslItem, from, to) ==
    IF Truthy(Get(cslItem, from)) THEN to :> Get(cslItem, from) ELSE EmptyObject

cslToZoteroItem(cslItem) ==
    IF PropertyReadThrows(cslItem) THEN Thrown
    ELSE LET itemType == mapCslTypeToZoteroItemType(Get(cslItem, "type"))
             creators == mapCslAuthorsToCreators(cslItem)
             dateStr  == mapCslIssuedToZoteroDate(cslItem)
         IN  IF itemType.thrown \/ creators.thrown THEN Thrown
             ELSE Returned(
                    [itemType |-> itemType.v,
                     title    |-> Or(Get(cslItem, "title"), JStr(S_untitledZotero)),
                     creators |-> creators.v]
                    @@ (IF dateStr # <<>> THEN [date |-> dateStr] ELSE EmptyObject)
                    @@ CopyIfTruthy(cslItem, "publisher", "publisher")
                    @@ CopyIfTruthy(cslItem, "archive", "archive")
                    @@ CopyIfTruthy(cslItem, "archive_location", "archiveLocation")
                    @@ CopyIfTruthy(cslItem, "collection-title", "libraryCatalog")
                    @@ CopyIfTruthy(cslItem, "URL", "url")
                    @@ CopyIfTruthy(cslItem, "note", "extra"))

-----------------------------------------------------------------------------
(* Sample data.                                                            *)

T_UrlA == <<"h","t","t","p",":","/","/","h","/","d","/","a","?","q","#","f">>
T_UrlB == <<"h","t","t","p",":","/","/","h","/","b">>
T_Relative == <<"a","/","b">>
T_JaneMaryDoe == <<"J","a","n","e"," ","M","a","r","y"," ","D","o","e">>
T_DoeSmith == <<"D","o","e",","," ","J","a","n","e",";"," ","S","m","i","t","h",","," ","B","o","b">>
T_Blank == <<" "," ">>
T_Journal == <<"J","o","u","r","n","a","l">>
T_London == <<"P","r","i","n","t","e","d"," ","i","n"," ","L","o","n","d","o","n",","," ","1","6","2","3">>
T_Press == <<"P","r","e","s","s">>
T_Lib == <<"L","i","b">>
T_CreatedPublished == <<"C","r","e","a","t","e","d","/","P","u","b","l","i","s","h","e","d">>
T_Circa == <<"c","i","r","c","a"," ","1","6","0","0","s">>
T_Ragged == <<"S","h","a","k","e","s","p","e","a","r","e","\n",";"," "," ",";","A"," "," ","B">>
T_x == <<"x">>
T_MS1 == <<"M","S"," ","1">>
T_JournalOfManuscripts == <<"J","o","u","r","n","a","l"," ","o","f"," ","M","a","n","u","s","c","r","i","p","t","s">>
T_Book == <<"B","o","o","k">>
T_Livre == <<"L","i","v","r","e">>
T_Codex == <<"C","o","d","e","x">>
T_AnArticle == <<"A","n"," ","A","r","t","i","c","l","e">>
T_msx == <<"m","s","x">>
T_AtId == <<"h","t","t","p",":","/","/","h","/","i">>
T_Home == <<"h","t","t","p",":","/","/","h","/","h","o","m","e">>
T_Rel == <<"h","t","t","p",":","/","/","h","/","r","e","l">>
T_Ctx == <<"h","t","t","p",":","/","/","i","i","i","f",".","i","o","/","c">>
T_Html == <<"<","p",">">>
T_CutJson == <<"{","i","i","i","f",".","i","o">>

T_PaddedMS1 == <<"\n"," "," ","M","S"," ","1"," "," ">>
T_Undated == <<"u","n","d","a","t","e","d">>
T_Shelfmark == <<"n","o","."," ","3","1","6","2","3">>
T_ThreeYears == <<"0","9","9","9",","," ","2","0","2","4"," ","(","1","9","9","9",")">>

\* A manifest with every field absent.
EmptyManifest ==
    [label |-> Undef, description |-> Undef, metadata |-> Undef, homepage |-> Undef,
     related |-> Undef, atid |-> Undef, id |-> Undef, context |-> Undef]

\* A metadata entry {label, value}
Entry(l, v) == JObj(<<"label", "value">>, <<l, v>>)

\* The manifests the sample servers deliver: a v2 manifest with metadata, a v3
\* manifest with a language-map label, and one whose metadata holds null.
PipeManifests ==
    << [EmptyManifest EXCEPT
            !.label = JStr(T_MS1), !.atid = JStr(T_AtId), !.context = JStr(T_Ctx),
            !.metadata = JArr(<<Entry(JStr(S_Creator), JStr(T_JaneMaryDoe))>>)],
       [EmptyManifest EXCEPT
            !.label = JObj(<<"en">>, <<JArr(<<JStr(T_Journal)>>)>>),
            !.context = JStr(T_Ctx)],
       [EmptyManifest EXCEPT
            !.label = JStr(T_Book), !.context = JStr(T_Ctx),
            !.metadata = JArr(<<Null>>)] >>

\* Response bodies: the text the sniff test reads, whether JSON.parse accepts
\* the body, and the manifest it parses to (an index into PipeManifests).
Bodies ==
    {[text |-> T_Html, parses |-> FALSE, manifest |-> 1],
     [text |-> <<>>, parses |-> FALSE, manifest |-> 1],
     [text |-> T_CutJson, parses |-> FALSE, manifest |-> 1]}
    \cup {[text |-> T_Ctx, parses |-> TRUE, manifest |-> k] : k \in 1..Len(PipeManifests)}

\* Entries of an input URL list: two URLs and the empty string.
PipeUrls == {JStr(<<>>), JStr(T_UrlA), JStr(T_UrlB)}

\* Longest input URL list explored.
MaxUrls == 3

RECURSIVE SeqsUpTo(_, _)
\* The sequences over S of length at most n
SeqsUpTo(S, n) ==
    IF n = 0 THEN {<<>>}
    ELSE LET shorter == SeqsUpTo(S, n - 1)
         IN  shorter \cup {Append(q, x) : q \in {r \in shorter : Len(r) = n - 1}, x \in S}

-----------------------------------------------------------------------------
(* looksLikeIIIFManifest, fetchWithTimeout, fetchManifest,                 *)
(* iiifManifestUrlsToCSL                                                   *)

\* if (!text) return false; return /iiif\.io/.test(text);
looksLikeIIIFManifest(text) == text # <<>> /\ Contains(text, S_iiif_io)

\* The variables of a conversion call, idle while the pipeline runs.
CallIdle ==
    /\ manifest = EmptyManifest
    /\ manifestUrl = Undef
    /\ op = "none"
    /\ arg = <<>>
    /\ ret = Returned(<<>>)

\* The variables of the Zotero command-line program, idle while it does not run.
CliIdle ==
    /\ cliMode = "none"
    /\ cslFile = [state |-> "none", value |-> Undef]
    /\ cliOpts = [postWebAPI |-> FALSE, credentials |-> FALSE, outFile |-> FALSE]
    /\ cliPc = "idle"
    /\ cslItems = <<>>
    /\ zoteroItems = <<>>
    /\ mapIdx = 1
    /\ upload = "none"
    /\ written = [state |-> "none", items |-> <<>>]
    /\ exitCode = "running"
    /\ cliLog = <<>>

\* The variables of the sniffer, idle while another program runs.
DomIdle ==
    /\ nodes = <<>>
    /\ location = Undef

\* Values passed as manifestUrls that are no array.
NonArrayArguments ==
    {Undef, Null, JStr(T_UrlA), JObj(<<"0">>, <<JStr(T_UrlA)>>)}

Init ==
    /\ variant \in {"core", "bundle"}
    /\ argument \in {JArr(q) : q \in SeqsUpTo(PipeUrls, MaxUrls)} \cup NonArrayArguments
    /\ manifestUrls = IF argument.t = "arr" THEN argument.e ELSE <<>>
    /\ idx = 1
    /\ pc = "call"
    /\ items = <<>>
    /\ timerArmed = FALSE
    /\ inflight = {}
    /\ issued = <<>>
    /\ outcome = [k \in 1..Len(manifestUrls) |-> "pending"]
    /\ served = [k \in 1..Len(manifestUrls) |-> 0]
    /\ errlog = <<>>
    /\ CallIdle
    /\ CliIdle
    /\ DomIdle

\* An entry that starts the loop whatever the argument is.
CheckArgument_noCheck ==
    /\ pc = "call"
    /\ pc' = "loop"
    /\ UNCHANGED <<variant, argument, manifestUrls, idx, items, timerArmed, inflight,
                   issued, outcome, served, errlog>>
    /\ UNCHANGED callVars
    /\ UNCHANGED cliVars
    /\ UNCHANGED domVars

\* if (!Array.isArray(manifestUrls)) throw new TypeError(...): the promise of
\* the call is rejected at once; otherwise const items = [] and the loop starts.
\* In the bundle the same test of fromManifestUrls comes first.
CheckArgument ==
    /\ pc = "call"
    /\ pc' = IF argument.t = "arr" THEN "loop" ELSE "threw"
    /\ UNCHANGED <<variant, argument, manifestUrls, idx, items, timerArmed, inflight,
                   issued, outcome, served, errlog>>
    /\ UNCHANGED callVars
    /\ UNCHANGED cliVars
    /\ UNCHANGED domVars

\* The catch block that ends the whole loop at the first failure.
CatchAndAbort ==
    /\ errlog' = Append(errlog, idx)
    /\ outcome' = [outcome EXCEPT ![idx] = "failed"]
    /\ inflight' = inflight \ {idx}
    /\ pc' = "done"
    /\ UNCHANGED <<idx, items, served, issued>>

\* catch (e) { console.error(`Error processing ${url}: ...`) } and the next
\* iteration of the for-of loop.
CatchAndContinue ==
    /\ errlog' = Append(errlog, idx)
    /\ outcome' = [outcome EXCEPT ![idx] = "failed"]
    /\ inflight' = inflight \ {idx}
    /\ idx' = idx + 1
    /\ pc' = "loop"
    /\ UNCHANGED <<items, served, issued>>

\* The loop is exhausted: return items.
ReturnItems ==
    /\ pc = "loop"
    /\ idx > Len(manifestUrls)
    /\ pc' = "done"
    /\ UNCHANGED <<variant, argument, manifestUrls, idx, items, timerArmed, inflight, issued,
                   outcome, served, errlog>>
    /\ UNCHANGED callVars
    /\ UNCHANGED cliVars
    /\ UNCHANGED domVars

\* A loop without `if (!url) continue`: the falsy entry is retrieved too.
SkipFalsy_noSkip ==
    /\ pc = "loop"
    /\ idx <= Len(manifestUrls)
    /\ ~Truthy(manifestUrls[idx])
    /\ inflight' = inflight \cup {idx}
    /\ issued' = Append(issued, idx)
    /\ timerArmed' = (variant = "core")
    /\ pc' = "await_fetch"
    /\ UNCHANGED <<variant, argument, manifestUrls, idx, items, outcome, served, errlog>>
    /\ UNCHANGED callVars
    /\ UNCHANGED cliVars
    /\ UNCHANGED domVars

\* if (!url) continue;
SkipFalsy ==
    /\ pc = "loop"
    /\ idx <= Len(manifestUrls)
    /\ ~Truthy(manifestUrls[idx])
    /\ outcome' = [outcome EXCEPT ![idx] = "skipped"]
    /\ idx' = idx + 1
    /\ UNCHANGED <<variant, argument, manifestUrls, pc, items, timerArmed, inflight, issued,
                   served, errlog>>
    /\ UNCHANGED callVars
    /\ UNCHANGED cliVars
    /\ UNCHANGED domVars

\* A loop that starts the retrieval of every remaining URL at once.
IssueFetch_allAtOnce ==
    /\ pc = "loop"
    /\ idx <= Len(manifestUrls)
    /\ Truthy(manifestUrls[idx])
    /\ inflight' = {k \in idx..Len(manifestUrls) : Truthy(manifestUrls[k])}
    /\ issued' = Append(issued, idx)
    /\ timerArmed' = (variant = "core")
    /\ pc' = "await_fetch"
    /\ UNCHANGED <<variant, argument, manifestUrls, idx, items, outcome, served, errlog>>
    /\ UNCHANGED callVars
    /\ UNCHANGED cliVars
    /\ UNCHANGED domVars

\* await fetchManifest(url): the request is sent (in the core under
\* fetchWithTimeout, which arms the 15 s timer) and the function suspends.
IssueFetch ==
    /\ pc = "loop"
    /\ idx <= Len(manifestUrls)
    /\ Truthy(manifestUrls[idx])
    /\ inflight' = inflight \cup {idx}
    /\ issued' = Append(issued, idx)
    /\ timerArmed' = (variant = "core")
    /\ pc' = "await_fetch"
    /\ UNCHANGED <<variant, argument, manifestUrls, idx, items, outcome, served, errlog>>
    /\ UNCHANGED callVars
    /\ UNCHANGED cliVars
    /\ UNCHANGED domVars

\* fetch() resolves with the response headers; `finally` clears the timer;
\* a non-ok status throws, otherwise res.text() is awaited.
FetchResolves ==
    /\ pc = "await_fetch"
    /\ timerArmed' = FALSE
    /\ \E ok \in BOOLEAN :
          IF ok
          THEN /\ pc' = "await_text"
               /\ UNCHANGED <<idx, items, inflight, issued, outcome, served, errlog>>
          ELSE CatchAndContinue
    /\ UNCHANGED <<variant, argument, manifestUrls>>
    /\ UNCHANGED callVars
    /\ UNCHANGED cliVars
    /\ UNCHANGED domVars

\* fetch() rejects (network error); `finally` clears the timer.
FetchRejects ==
    /\ pc = "await_fetch"
    /\ timerArmed' = FALSE
    /\ CatchAndContinue
    /\ UNCHANGED <<variant, argument, manifestUrls>>
    /\ UNCHANGED callVars
    /\ UNCHANGED cliVars
    /\ UNCHANGED domVars

\* The timer of fetchWithTimeout fires: controller.abort() rejects the fetch.
TimerFires ==
    /\ timerArmed
    /\ pc = "await_fetch"
    /\ timerArmed' = FALSE
    /\ CatchAndContinue
    /\ UNCHANGED <<variant, argument, manifestUrls>>
    /\ UNCHANGED callVars
    /\ UNCHANGED cliVars
    /\ UNCHANGED domVars

\* res.text() resolves: sniff test, JSON.parse, manifestToCSLItem, items.push.
BodyArrives ==
    /\ pc = "await_text"
    /\ \E body \in Bodies :
       \E converted \in {manifestToCSLItem(PipeManifests[body.manifest],
                                            manifestUrls[idx])} :
              IF /\ looksLikeIIIFManifest(body.text)
                 /\ body.parses
                 /\ ~converted.thrown
              THEN /\ items' = Append(items, converted.v)
                   /\ outcome' = [outcome EXCEPT ![idx] = "ok"]
                   /\ served' = [served EXCEPT ![idx] = body.manifest]
                   /\ inflight' = inflight \ {idx}
                   /\ idx' = idx + 1
                   /\ pc' = "loop"
                   /\ UNCHANGED <<issued, errlog>>
              ELSE IF looksLikeIIIFManifest(body.text) /\ body.parses
              THEN \* manifestToCSLItem threw: the same catch block
                   /\ errlog' = Append(errlog, idx)
                   /\ outcome' = [outcome EXCEPT ![idx] = "failed"]
                   /\ served' = [served EXCEPT ![idx] = body.manifest]
                   /\ inflight' = inflight \ {idx}
                   /\ idx' = idx + 1
                   /\ pc' = "loop"
                   /\ UNCHANGED <<items, issued>>
              ELSE CatchAndContinue
    /\ UNCHANGED <<variant, argument, manifestUrls, timerArmed>>
    /\ UNCHANGED callVars
    /\ UNCHANGED cliVars
    /\ UNCHANGED domVars

\* res.text() rejects (the connection breaks while the body is read).
BodyReadFails ==
    /\ pc = "await_text"
    /\ CatchAndContinue
    /\ UNCHANGED <<variant, argument, manifestUrls, timerArmed>>
    /\ UNCHANGED callVars
    /\ UNCHANGED cliVars
    /\ UNCHANGED domVars

Next ==
    \/ CheckArgument
    \/ ReturnItems
    \/ SkipFalsy
    \/ IssueFetch
    \/ FetchResolves
    \/ FetchRejects
    \/ TimerFires
    \/ BodyArrives
    \/ BodyReadFails

Spec == Init /\ [][Next]_vars

-----------------------------------------------------------------------------
(* Calls of the conversion functions on sample manifests.                  *)

\* Metadata entries: labelled pairs in the three label encodings, an entry
\* with a blank value and null.
EntrySamples ==
    {Entry(JStr(S_Creator), JStr(T_JaneMaryDoe)),
     Entry(JStr(S_author), JStr(T_DoeSmith)),
     Entry(JStr(S_Author), JStr(T_Blank)),
     Entry(JStr(S_Creators), JStr(T_Ragged)),
     Entry(JStr(S_Type), JStr(T_Journal)),
     Entry(JStr(S_Date), JStr(T_London)),
     Entry(JStr(S_Publisher), JObj(<<"en">>, <<JArr(<<JStr(T_Press)>>)>>)),
     Entry(JArr(<<JObj(<<"@value">>, <<JStr(S_Repository)>>)>>), JStr(T_Lib)),
     Null}

\* Longest metadata list explored.
MaxEntries == 2

\* manifest.metadata: absent, a list, or a value that is no list.
MetadataSamples ==
    {JArr(q) : q \in SeqsUpTo(EntrySamples, MaxEntries)}
    \cup {Undef, Null, JStr(T_x), JNum(<<"5">>), JBool(FALSE), JObj(<<>>, <<>>)}

LabelSamples ==
    {Undef,
     JStr(T_Blank),
     JStr(T_JournalOfManuscripts),
     JStr(T_AnArticle),
     JStr(T_PaddedMS1),
     JObj(<<"en", "fr">>, <<JArr(<<JStr(T_Book)>>), JArr(<<JStr(T_Livre)>>)>>),
     JObj(<<"en">>, <<JStr(T_Book)>>),
     JObj(<<"en", "none", "fr">>,
          <<JArr(<<JStr(<<>>), JStr(T_Book), Null>>), JStr(T_x),
            JArr(<<JStr(T_Livre), JNum(<<"7">>)>>)>>),
     JArr(<<JObj(<<"@value">>, <<JStr(T_Codex)>>), Null>>),
     JNum(<<"7">>)}

DescriptionSamples == {Undef, JStr(S_periodical), JStr(T_msx)}

AtIdSamples == {Undef, JStr(<<>>), JStr(T_AtId), JArr(<<>>)}

IdSamples == {Undef, JStr(T_x)}

UrlSamples == {Undef, JStr(T_UrlA), JStr(T_Relative)}

HomepageSamples == {Undef, JArr(<<JObj(<<"id">>, <<JStr(T_Home)>>)>>)}

RelatedSamples == {Undef, JStr(T_Rel)}

\* homepage values: a string, lists whose first element is an object with an
\* id, an empty string, or an object without one, a single object with @id
\* and href, one whose id is no string, and the empty list.
HomepageLinkSamples ==
    {Undef,
     JStr(T_Home),
     JArr(<<JObj(<<"id">>, <<JStr(T_Home)>>)>>),
     JArr(<<JStr(<<>>)>>),
     JArr(<<JObj(<<>>, <<>>), JStr(T_Home)>>),
     JObj(<<"@id", "href">>, <<JStr(T_Home), JStr(T_AtId)>>),
     JObj(<<"id", "href">>, <<JNum(<<"5">>), JStr(T_Home)>>),
     JArr(<<>>)}

\* related values: a string, a list of a string, an object with href, a
\* list of an object with @id.
RelatedLinkSamples ==
    {Undef,
     JStr(T_Rel),
     JArr(<<JStr(T_Rel)>>),
     JObj(<<"href">>, <<JStr(T_Rel)>>),
     JArr(<<JObj(<<"@id">>, <<JStr(T_Rel)>>)>>)}

\* Values of a Date entry: with a year, with a year inside a longer word or a
\* longer number, with several years, without any.
DateValueSamples ==
    {JStr(T_London), JStr(T_Circa), JStr(T_Undated), JStr(T_Shelfmark),
     JStr(T_ThreeYears), JStr(T_Blank)}

\* keyCandidates arguments
CandidateSamples ==
    {<<S_Author, S_Creator>>, <<S_Creator, S_Author>>, AuthorCandidates,
     DateCandidates, PublisherCandidates, <<>>}

T_PublishedCreated == <<"P","u","b","l","i","s","h","e","d"," ","-"," ","c","r","e","a","t","e","d">>
T_CreatedBy == <<"C","r","e","a","t","e","d"," ","b","y">>
T_PublishedBy == <<"P","u","b","l","i","s","h","e","d"," ","b","y">>
T_PublishedFor == <<"P","u","b","l","i","s","h","e","d"," ","f","o","r">>
T_ISSUED == <<"I","S","S","U","E","D">>
T_Published == <<"P","u","b","l","i","s","h","e","d">>

\* Metadata entries for the date lookup: created/published labels, labels
\* naming a person, date labels, and a matching label with a blank value.
DateEntrySamples ==
    {Entry(JStr(T_CreatedPublished), JStr(T_Circa)),
     Entry(JStr(T_PublishedCreated), JStr(<<"1","7","0","1">>)),
     Entry(JStr(T_CreatedBy), JStr(<<"1","8","5","0">>)),
     Entry(JStr(T_PublishedBy), JStr(<<"1","8","5","2">>)),
     Entry(JStr(T_PublishedFor), JStr(<<"1","8","5","1">>)),
     Entry(JStr(T_ISSUED), JStr(T_London)),
     Entry(JStr(T_Published), JStr(T_Blank)),
     Entry(JStr(S_PublicationDate), JStr(T_Undated))}

\* The variables of the pipeline, idle while a conversion function is called.
PipeIdle ==
    /\ variant = "core"
    /\ argument = JArr(<<>>)
    /\ manifestUrls = <<>>
    /\ idx = 1
    /\ pc = "idle"
    /\ items = <<>>
    /\ timerArmed = FALSE
    /\ inflight = {}
    /\ issued = <<>>
    /\ outcome = <<>>
    /\ served = <<>>
    /\ errlog = <<>>

\* The arguments of a call, in five families: the metadata list varies; the
\* label and the description vary; the identifiers and the source URL vary;
\* the links vary; the value of the Date entry varies.
ConvInit ==
    /\ PipeIdle
    /\ CliIdle
    /\ DomIdle
    /\ op = "none"
    /\ arg = <<>>
    /\ ret = Returned(<<>>)
    /\ \/ /\ \E md \in MetadataSamples, lb \in {Undef, JStr(T_MS1)} :
               manifest = [EmptyManifest EXCEPT !.metadata = md, !.label = lb]
          /\ manifestUrl = JStr(T_UrlA)
       \/ /\ \E lb \in LabelSamples, ds \in DescriptionSamples,
               md \in {Undef, JArr(<<Entry(JStr(S_Type), JStr(T_Journal))>>),
                       JArr(<<Entry(JStr(T_CreatedPublished), JStr(T_Circa)),
                              JStr(T_x), JObj(<<"value">>, <<JStr(T_Lib)>>),
                              JObj(<<"label">>, <<JStr(S_Authors)>>)>>)} :
               manifest = [EmptyManifest EXCEPT
                              !.label = lb, !.description = ds, !.metadata = md]
          /\ manifestUrl = JStr(T_UrlB)
       \/ /\ \E lb \in {Undef, JStr(T_AnArticle)}, ai \in AtIdSamples, i \in IdSamples :
               manifest = [EmptyManifest EXCEPT !.label = lb, !.atid = ai, !.id = i]
          /\ manifestUrl \in UrlSamples
       \/ /\ \E ai \in {Undef, JStr(T_AtId)}, hp \in HomepageSamples,
               rl \in RelatedSamples :
               manifest = [EmptyManifest EXCEPT
                              !.atid = ai, !.homepage = hp, !.related = rl]
          /\ manifestUrl \in UrlSamples
       \/ /\ \E dv \in DateValueSamples :
               manifest = [EmptyManifest EXCEPT
                              !.metadata = JArr(<<Entry(JStr(S_Date), dv)>>)]
          /\ manifestUrl = JStr(T_UrlB)
       \/ /\ \E q \in SeqsUpTo(DateEntrySamples, MaxEntries) :
               manifest = [EmptyManifest EXCEPT !.metadata = JArr(q)]
          /\ manifestUrl = Undef
       \/ /\ \E hp \in HomepageLinkSamples, rl \in RelatedLinkSamples :
               manifest = [EmptyManifest EXCEPT !.homepage = hp, !.related = rl]
          /\ manifestUrl \in {Undef, JStr(T_UrlA)}

Call_manifestToCSLItem ==
    /\ op = "none"
    /\ op' = "manifestToCSLItem"
    /\ ret' = manifestToCSLItem(manifest, manifestUrl)
    /\ UNCHANGED <<manifest, manifestUrl, arg>>
    /\ UNCHANGED pipeVars
    /\ UNCHANGED cliVars
    /\ UNCHANGED domVars

Call_getFirstMetadataValue ==
    /\ op = "none"
    /\ \E keyCandidates \in CandidateSamples :
          /\ op' = "getFirstMetadataValue"
          /\ arg' = keyCandidates
          /\ ret' = getFirstMetadataValue(manifest, keyCandidates)
    /\ UNCHANGED <<manifest, manifestUrl>>
    /\ UNCHANGED pipeVars
    /\ UNCHANGED cliVars
    /\ UNCHANGED domVars

Call_inferTypeFromMetadata ==
    /\ op = "none"
    /\ op' = "inferTypeFromMetadata"
    /\ ret' = inferTypeFromMetadata(manifest)
    /\ UNCHANGED <<manifest, manifestUrl, arg>>
    /\ UNCHANGED pipeVars
    /\ UNCHANGED cliVars
    /\ UNCHANGED domVars

Call_extractAuthors ==
    /\ op = "none"
    /\ op' = "extractAuthors"
    /\ ret' = extractAuthors(manifest)
    /\ UNCHANGED <<manifest, manifestUrl, arg>>
    /\ UNCHANGED pipeVars
    /\ UNCHANGED cliVars
    /\ UNCHANGED domVars

Call_extractDate ==
    /\ op = "none"
    /\ op' = "extractDate"
    /\ ret' = extractDate(manifest)
    /\ UNCHANGED <<manifest, manifestUrl, arg>>
    /\ UNCHANGED pipeVars
    /\ UNCHANGED cliVars
    /\ UNCHANGED domVars

Call_extractIdFromManifest ==
    /\ op = "none"
    /\ op' = "extractIdFromManifest"
    /\ ret' = Returned(extractIdFromManifest(manifest, manifestUrl))
    /\ UNCHANGED <<manifest, manifestUrl, arg>>
    /\ UNCHANGED pipeVars
    /\ UNCHANGED cliVars
    /\ UNCHANGED domVars

Call_extractHomepageURL ==
    /\ op = "none"
    /\ op' = "extractHomepageURL"
    /\ ret' = Returned(extractHomepageURL(manifest))
    /\ UNCHANGED <<manifest, manifestUrl, arg>>
    /\ UNCHANGED pipeVars
    /\ UNCHANGED cliVars
    /\ UNCHANGED domVars

Call_buildIiifNote ==
    /\ op = "none"
    /\ op' = "buildIiifNote"
    /\ ret' = buildIiifNote(manifest, manifestUrl)
    /\ UNCHANGED <<manifest, manifestUrl, arg>>
    /\ UNCHANGED pipeVars
    /\ UNCHANGED cliVars
    /\ UNCHANGED domVars

Call_iiifLabelToString ==
    /\ op = "none"
    /\ op' = "iiifLabelToString"
    /\ ret' = Returned(iiifLabelToString(manifest.label))
    /\ UNCHANGED <<manifest, manifestUrl, arg>>
    /\ UNCHANGED pipeVars
    /\ UNCHANGED cliVars
    /\ UNCHANGED domVars

\* issued: { "date-parts": [parts] }
IssuedOf(parts) == JObj(<<"date-parts">>, <<JArr(<<JArr(parts)>>)>>)

\* The JSON form of a record made by manifestToCSLItem.
RecordAsJson(item) ==
    LET has(k) == k \in DOMAIN item
        AuthorAsJson(a) ==
            IF "given" \in DOMAIN a
            THEN JObj(<<"given", "family">>, <<JStr(a.given), JStr(a.family)>>)
            ELSE JObj(<<"family">>, <<JStr(a.family)>>)
    IN  JObj(<<"id", "type", "title", "URL">>
               \o (IF has("author") THEN <<"author">> ELSE <<>>)
               \o (IF has("issued") THEN <<"issued">> ELSE <<>>)
               \o (IF has("publisher") THEN <<"publisher">> ELSE <<>>)
               \o (IF has("note") THEN <<"note">> ELSE <<>>),
             <<JStr(item.id), JStr(item.type), JStr(item.title), item.URL>>
               \o (IF has("author")
                   THEN <<JArr([k \in 1..Len(item.author) |->
                                   AuthorAsJson(item.author[k])])>>
                   ELSE <<>>)
               \o (IF has("issued")
                   THEN <<IssuedOf(<<JStr(item.issued["date-parts"][1][1])>>)>>
                   ELSE <<>>)
               \o (IF has("publisher") THEN <<JStr(item.publisher)>> ELSE <<>>)
               \o (IF has("note") THEN <<JStr(item.note)>> ELSE <<>>))

\* Mode B of the Zotero command-line program hands each record of the core
\* to cslToZoteroItem.
Call_cslToZoteroItem ==
    /\ op = "manifestToCSLItem"
    /\ ~ret.thrown
    /\ op' = "cslToZoteroItem"
    /\ arg' = RecordAsJson(ret.v)
    /\ ret' = cslToZoteroItem(arg')
    /\ UNCHANGED <<manifest, manifestUrl>>
    /\ UNCHANGED pipeVars
    /\ UNCHANGED cliVars
    /\ UNCHANGED domVars

ConvNext ==
    \/ Call_manifestToCSLItem
    \/ Call_getFirstMetadataValue
    \/ Call_inferTypeFromMetadata
    \/ Call_extractAuthors
    \/ Call_extractDate
    \/ Call_extractIdFromManifest
    \/ Call_iiifLabelToString
    \/ Call_extractHomepageURL
    \/ Call_buildIiifNote
    \/ Call_cslToZoteroItem

ConvSpec == ConvInit /\ [][ConvNext]_vars

-----------------------------------------------------------------------------
(* The Zotero command-line program: main of iiif_to_zotero_local_cli.      *)

T_JaneMary == <<" ","J","a","n","e"," ","M","a","r","y"," ">>
T_Doe == <<"D","o","e">>
T_Plato == <<"P","l","a","t","o">>
T_Smith == <<"S","m","i","t","h">>
T_ArticleJournalCaps == <<"A","r","t","i","c","l","e","-","J","o","u","r","n","a","l">>
T_dataset == <<"d","a","t","a","s","e","t">>
T_1623 == <<"1","6","2","3">>

\* CSL items of a --csl file: the three mapped types in either case, an
\* unmapped type, a type naming an inherited property, no type, a type that
\* is no string; authors with given and family, given only, literal only,
\* blank fields, no fields, and a null author; dates with one, two and three
\* parts, a null month, an empty year, and no parts.
CslSamples ==
    {JObj(<<"type", "title", "author", "issued", "publisher">>,
          <<JStr(S_book), JStr(T_Book),
            JArr(<<JObj(<<"given", "family">>, <<JStr(T_JaneMary), JStr(T_Doe)>>)>>),
            IssuedOf(<<JNum(<<"2","0","2","0">>), JNum(<<"1","1">>), JNum(<<"3">>)>>),
            JStr(T_Press)>>),
     JObj(<<"type", "author", "issued">>,
          <<JStr(T_ArticleJournalCaps),
            JArr(<<JObj(<<"given">>, <<JStr(T_Plato)>>),
                   JObj(<<"literal">>, <<JStr(T_Lib)>>),
                   JObj(<<>>, <<>>),
                   JObj(<<"given", "family">>, <<JStr(<<>>), JStr(T_Smith)>>)>>),
            IssuedOf(<<JNum(<<"2","0","2","0">>), JNum(<<"5">>)>>)>>),
     JObj(<<"type", "title", "author", "issued", "URL", "note">>,
          <<JStr(S_manuscript), JStr(T_MS1),
            JArr(<<JObj(<<"given", "family", "literal">>,
                        <<JStr(T_Blank), JStr(<<>>), JStr(T_Blank)>>),
                   JObj(<<"family", "literal">>, <<JStr(T_Doe), JStr(T_x)>>)>>),
            IssuedOf(<<JStr(T_1623)>>), JStr(T_AtId), JStr(S_NoteHeading)>>),
     JObj(<<"type", "author", "issued">>,
          <<JStr(T_dataset), JStr(T_Doe),
            IssuedOf(<<JNum(<<"2","0","2","0">>), Null, JNum(<<"7">>)>>)>>),
     JObj(<<"type", "title", "issued">>,
          <<JStr(S_constructor), JStr(T_x), IssuedOf(<<>>)>>),
     JObj(<<"issued">>, <<IssuedOf(<<JStr(<<>>), JNum(<<"5">>)>>)>>),
     JObj(<<"type", "author">>, <<JNum(<<"5">>), JArr(<<Null>>)>>),
     Null}

\* Longest item list of a --csl file explored.
MaxItems == 2

\* The --csl file: unreadable, no JSON, or JSON holding a list of items, a
\* single item, or a value that is neither.
CslFileSamples ==
    {[state |-> "unreadable", value |-> Undef],
     [state |-> "malformed", value |-> Undef],
     [state |-> "json", value |-> JNum(<<"5">>)],
     [state |-> "json", value |-> Null]}
    \cup {[state |-> "json", value |-> v] : v \in CslSamples \ {Null}}
    \cup {[state |-> "json", value |-> JArr(q)] : q \in SeqsUpTo(CslSamples, MaxItems)}

\* The record manifestToCSLItem makes of each sample manifest under each URL.
RecordOf ==
    [k \in 1..Len(PipeManifests), u \in PipeUrls |->
        manifestToCSLItem(PipeManifests[k], u).v]

\* What iiifManifestUrlsToCSL(urls) resolves with: the records of the URLs
\* that succeeded, here none, one or two of the sample manifests served
\* under url.
CoreResults(url) ==
    {SubSeq([k \in 1..2 |-> RecordAsJson(made[k])], 1, n) :
        n \in 0..2,
        made \in {[k \in 1..2 |-> manifestToCSLItem(PipeManifests[k], url).v]}}

\* --post-webapi with or without --api-user/--api-key; --out or stdout.
OptionSamples ==
    {[postWebAPI |-> p, credentials |-> c, outFile |-> o] :
        p \in BOOLEAN, c \in BOOLEAN, o \in BOOLEAN}

ZotInit ==
    /\ PipeIdle
    /\ CallIdle
    /\ DomIdle
    /\ cliMode \in {"csl", "iiif"}
    /\ cslFile \in IF cliMode = "csl" THEN CslFileSamples
                   ELSE {[state |-> "none", value |-> Undef]}
    /\ cliOpts \in OptionSamples
    /\ cliPc = "start"
    /\ cslItems = <<>>
    /\ zoteroItems = <<>>
    /\ mapIdx = 1
    /\ upload = "none"
    /\ written = [state |-> "none", items |-> <<>>]
    /\ exitCode = "running"
    /\ cliLog = <<>>

\* process.exit(1)
Exit1 ==
    /\ cliPc' = "exited"
    /\ exitCode' = 1

\* Mode A: fs.readFileSync, JSON.parse, and the shape test of the parsed value.
ReadCslFile ==
    /\ cliPc = "start"
    /\ cliMode = "csl"
    /\ IF cslFile.state = "json" /\ cslFile.value.t = "arr"
       THEN /\ cslItems' = cslFile.value.e
            /\ cliPc' = "map"
            /\ UNCHANGED exitCode
       ELSE IF cslFile.state = "json" /\ cslFile.value.t = "obj"
       THEN /\ cslItems' = <<cslFile.value>>
            /\ cliPc' = "map"
            /\ UNCHANGED exitCode
       ELSE /\ Exit1
            /\ UNCHANGED cslItems
    /\ UNCHANGED <<cliLog, cliMode, cslFile, cliOpts, zoteroItems, mapIdx, upload, written>>
    /\ UNCHANGED pipeVars
    /\ UNCHANGED domVars
    /\ UNCHANGED callVars

\* Mode B: cslItems = await iiifManifestUrlsToCSL(urls)
ConvertManifests ==
    /\ cliPc = "start"
    /\ cliMode = "iiif"
    /\ \E url \in {JStr(T_UrlA)} : cslItems' \in CoreResults(url)
    /\ cliPc' = "map"
    /\ UNCHANGED <<cliLog, cliMode, cslFile, cliOpts, zoteroItems, mapIdx, upload, written,
                   exitCode>>
    /\ UNCHANGED pipeVars
    /\ UNCHANGED domVars
    /\ UNCHANGED callVars

\* A mapping loop without the try/catch: a record that cannot be mapped
\* ends the run.
MapItem_noCatch ==
    /\ cliPc = "map"
    /\ mapIdx <= Len(cslItems)
    /\ op' = "cslToZoteroItem"
    /\ arg' = cslItems[mapIdx]
    /\ ret' = cslToZoteroItem(cslItems[mapIdx])
    /\ IF ret'.thrown
       THEN /\ Exit1
            /\ UNCHANGED <<zoteroItems, cliLog, mapIdx>>
       ELSE /\ zoteroItems' = Append(zoteroItems, ret'.v)
            /\ mapIdx' = mapIdx + 1
            /\ UNCHANGED <<cliLog, cliPc, exitCode>>
    /\ UNCHANGED <<cliMode, cslFile, cliOpts, cslItems, upload, written>>
    /\ UNCHANGED <<manifest, manifestUrl>>
    /\ UNCHANGED pipeVars
    /\ UNCHANGED domVars

\* One iteration of the mapping loop: try { zoteroItems.push(cslToZoteroItem(item)) }
\* catch (err) { console.error(...) }
MapItem ==
    /\ cliPc = "map"
    /\ mapIdx <= Len(cslItems)
    /\ op' = "cslToZoteroItem"
    /\ arg' = cslItems[mapIdx]
    /\ ret' = cslToZoteroItem(cslItems[mapIdx])
    /\ zoteroItems' = IF ret'.thrown THEN zoteroItems ELSE Append(zoteroItems, ret'.v)
    /\ cliLog' = IF ret'.thrown THEN Append(cliLog, mapIdx) ELSE cliLog
    /\ mapIdx' = mapIdx + 1
    /\ UNCHANGED <<cliMode, cslFile, cliOpts, cliPc, cslItems, upload, written,
                   exitCode>>
    /\ UNCHANGED <<manifest, manifestUrl>>
    /\ UNCHANGED pipeVars
    /\ UNCHANGED domVars

\* After the loop: without --post-webapi the output is next; with it, missing
\* credentials end the run, an empty list skips the request, and otherwise
\* uploadToZoteroWebAPI sends the POST request and main awaits it.
FinishMapping ==
    /\ cliPc = "map"
    /\ mapIdx > Len(cslItems)
    /\ IF ~cliOpts.postWebAPI
       THEN /\ cliPc' = "write"
            /\ UNCHANGED <<upload, exitCode>>
       ELSE IF ~cliOpts.credentials
       THEN /\ Exit1
            /\ UNCHANGED upload
       ELSE IF zoteroItems = <<>>
       THEN /\ upload' = "skipped"
            /\ cliPc' = "write"
            /\ UNCHANGED exitCode
       ELSE /\ upload' = "sent"
            /\ cliPc' = "await_upload"
            /\ UNCHANGED exitCode
    /\ UNCHANGED <<cliLog, cliMode, cslFile, cliOpts, cslItems, zoteroItems, mapIdx, written>>
    /\ UNCHANGED pipeVars
    /\ UNCHANGED domVars
    /\ UNCHANGED callVars

\* The request succeeds (res.ok, res.json() resolves): "Uploaded n item(s)".
UploadAccepted ==
    /\ cliPc = "await_upload"
    /\ upload' = "ok"
    /\ cliPc' = "write"
    /\ UNCHANGED <<cliLog, cliMode, cslFile, cliOpts, cslItems, zoteroItems, mapIdx, written,
                   exitCode>>
    /\ UNCHANGED pipeVars
    /\ UNCHANGED domVars
    /\ UNCHANGED callVars

\* The API answers with an error status: uploadToZoteroWebAPI throws, main
\* logs "Zotero upload failed" and calls process.exit(1).
UploadRejected ==
    /\ cliPc = "await_upload"
    /\ upload' = "rejected"
    /\ Exit1
    /\ UNCHANGED <<cliLog, cliMode, cslFile, cliOpts, cslItems, zoteroItems, mapIdx, written>>
    /\ UNCHANGED pipeVars
    /\ UNCHANGED domVars
    /\ UNCHANGED callVars

\* fetch (or the reading of the response) rejects: same catch block.
UploadThrows ==
    /\ cliPc = "await_upload"
    /\ upload' = "threw"
    /\ Exit1
    /\ UNCHANGED <<cliLog, cliMode, cslFile, cliOpts, cslItems, zoteroItems, mapIdx, written>>
    /\ UNCHANGED pipeVars
    /\ UNCHANGED domVars
    /\ UNCHANGED callVars

\* JSON.stringify(zoteroItems) goes to the --out file (writeFileSync may
\* throw: process.exit(1)) or to stdout; main returns.
WriteOutput ==
    /\ cliPc = "write"
    /\ \E ok \in IF cliOpts.outFile THEN BOOLEAN ELSE {TRUE} :
          IF ok
          THEN /\ written' = [state |-> "done", items |-> zoteroItems]
               /\ cliPc' = "exited"
               /\ exitCode' = 0
          ELSE /\ written' = [state |-> "failed", items |-> <<>>]
               /\ Exit1
    /\ UNCHANGED <<cliLog, cliMode, cslFile, cliOpts, cslItems, zoteroItems, mapIdx, upload>>
    /\ UNCHANGED pipeVars
    /\ UNCHANGED domVars
    /\ UNCHANGED callVars

ZotNext ==
    \/ ReadCslFile
    \/ ConvertManifests
    \/ MapItem
    \/ FinishMapping
    \/ UploadAccepted
    \/ UploadRejected
    \/ UploadThrows
    \/ WriteOutput

ZotSpec == ZotInit /\ [][ZotNext]_vars

-----------------------------------------------------------------------------
(* The two batch loops side by side: a behaviour is one call of            *)
(* iiifManifestUrlsToCSL or one run of the Zotero command-line program.    *)

BatchInit == Init \/ ZotInit

BatchNext == Next \/ ZotNext

BatchSpec == BatchInit /\ [][BatchNext]_vars

-----------------------------------------------------------------------------
(* The sniffer: getNodeLabel, resolveUrl, findManifestReferrerNodes,       *)
(* dedupeManifestCandidates, sniffManifestUrls                             *)

S_iiif == <<"i","i","i","f">>

S_manifest == <<"m","a","n","i","f","e","s","t">>

\* const MANIFEST_TEXT_RE = /iiif[\s_-]*manifest/i
MANIFEST_TEXT_RE(label) ==
    LET l == ToLowerCase(label)
    IN  \E k \in 1..Len(l) :
        \E j \in (k + Len(S_iiif))..Len(l) :
            /\ OccursAt(l, S_iiif, k)
            /\ \A i \in (k + Len(S_iiif))..(j - 1) : IsSpace(l[i]) \/ l[i] \in {"_", "-"}
            /\ OccursAt(l, S_manifest, j)

\* textContent trimmed, else the title attribute trimmed, else aria-label
\* trimmed, else ""
getNodeLabel(node) ==
    LET direct == Trim(node.textContent)
        title  == IF Truthy(node.title) THEN node.title.s ELSE <<>>
        aria   == IF Truthy(node.ariaLabel) THEN node.ariaLabel.s ELSE <<>>
    IN  IF direct # <<>> THEN direct
        ELSE IF Trim(title) # <<>> THEN Trim(title)
        ELSE IF Trim(aria) # <<>> THEN Trim(aria)
        ELSE <<>>

\* new URL(href, base).toString(): [ok |-> FALSE] where the constructor
\* throws.  The references drawn are http(s) URLs in either letter case,
\* paths that begin with one "/", and plain relative paths; none holds dot
\* segments, a query or a fragment.  The scheme and host are lower-cased,
\* an empty path becomes "/", a reference with no scheme is resolved
\* against the base (absent base: the constructor throws).
NewURL(href, base) ==
    LET n == SchemePrefixLen(ToLowerCase(href))
        hostEnd == FirstIndexOf(href, {"/"}, n + 1)
    IN  IF n > 0
        THEN IF hostEnd = n + 1
             THEN [ok |-> FALSE, href |-> <<>>]
             ELSE [ok |-> TRUE,
                   href |-> ToLowerCase(SubSeq(href, 1, hostEnd - 1))
                            \o (IF hostEnd > Len(href) THEN <<"/">>
                                ELSE SubSeq(href, hostEnd, Len(href)))]
        ELSE IF base.t # "str"
        THEN [ok |-> FALSE, href |-> <<>>]
        ELSE IF Head(href) = "/"
        THEN [ok |-> TRUE, href |-> OriginOf(base.s) \o href]
        ELSE LET path == PathnameOf(base.s)
                 slashes == {k \in 1..Len(path) : path[k] = "/"}
                 last == CHOOSE k \in slashes : \A j \in slashes : j <= k
             IN  [ok |-> TRUE,
                  href |-> OriginOf(base.s) \o SubSeq(path, 1, last) \o href]

\* if (!href) return null; base = baseUrl || document.location.href;
\* new URL(href, base) or new URL(href); catch: null
resolveUrl(href, baseUrl) ==
    IF ~Truthy(href) THEN Null
    ELSE LET base == Or(baseUrl, location)
             url  == NewURL(href.s, base)
         IN  IF url.ok THEN JStr(url.href) ELSE Null

\* (node.tagName === "A" && node.getAttribute("href")) ||
\*   node.getAttribute("data-href") || null
HrefOf(node) ==
    IF node.tagName = "A" /\ Truthy(node.href) THEN node.href
    ELSE IF Truthy(node.dataHref) THEN node.dataHref
    ELSE Null

RECURSIVE findManifestReferrerNodes(_)
\* One candidate for every node from position k on whose label is not empty
\* and matches MANIFEST_TEXT_RE, in document order.
findManifestReferrerNodes(k) ==
    IF k > Len(nodes) THEN <<>>
    ELSE LET label == getNodeLabel(nodes[k])
         IN  IF label = <<>> \/ ~MANIFEST_TEXT_RE(label)
             THEN findManifestReferrerNodes(k + 1)
             ELSE <<[node |-> k,
                     label |-> label,
                     href |-> HrefOf(nodes[k]),
                     resolvedHref |-> resolveUrl(HrefOf(nodes[k]), Undef)]>>
                  \o findManifestReferrerNodes(k + 1)

\* A step in which a label of the same length also replaces the candidate
\* held.
DedupeStep_lastOnTie(byUrl, c) ==
    LET held == {i \in 1..Len(byUrl) : byUrl[i].resolvedHref = c.resolvedHref}
    IN  IF ~Truthy(c.resolvedHref) THEN byUrl
        ELSE IF held = {} THEN Append(byUrl, c)
        ELSE LET i == CHOOSE i \in held : TRUE
             IN  IF Len(c.label) <= Len(byUrl[i].label)
                 THEN [byUrl EXCEPT ![i] = c] ELSE byUrl

\* One step of the loop over the candidates; byUrl holds the values of the
\* Map in insertion order (Map.set on a key already held keeps its place).
\* if (!c.resolvedHref) continue; if (!existing) set;
\* if ((c.label || "").length < (existing.label || "").length) set
DedupeStep(byUrl, c) ==
    LET held == {i \in 1..Len(byUrl) : byUrl[i].resolvedHref = c.resolvedHref}
    IN  IF ~Truthy(c.resolvedHref) THEN byUrl
        ELSE IF held = {} THEN Append(byUrl, c)
        ELSE LET i == CHOOSE i \in held : TRUE
             IN  IF Len(c.label) < Len(byUrl[i].label)
                 THEN [byUrl EXCEPT ![i] = c] ELSE byUrl

RECURSIVE DedupeLoop(_, _)
\* for (const c of candidates) { ... }
DedupeLoop(byUrl, candidates) ==
    IF candidates = <<>> THEN byUrl
    ELSE DedupeLoop(DedupeStep(byUrl, Head(candidates)), Tail(candidates))

\* return Array.from(byUrl.values())
dedupeManifestCandidates(candidates) == DedupeLoop(<<>>, candidates)

\* unique.map(c => c.resolvedHref)
\*       .filter(u => typeof u === "string" && u.length > 0)
ManifestUrlsOf(unique) ==
    LET kept == SelectSeq(unique, LAMBDA c : c.resolvedHref.t = "str"
                                             /\ c.resolvedHref.s # <<>>)
    IN  [k \in 1..Len(kept) |-> kept[k].resolvedHref.s]

sniffManifestUrls ==
    LET candidates == findManifestReferrerNodes(1)
    IN  LET unique == dedupeManifestCandidates(candidates)
        IN  [candidates |-> candidates,
             unique |-> unique,
             manifestUrls |-> ManifestUrlsOf(unique)]

T_PageUrl == <<"h","t","t","p",":","/","/","h","/","d","/","p">>

T_MUrl == <<"h","t","t","p",":","/","/","h","/","d","/","m">>

T_MUrlCaps == <<"H","T","T","P",":","/","/","H","/","d","/","m">>

T_EUrl == <<"h","t","t","p",":","/","/","h","/","e">>

T_HostOnly == <<"h","t","t","p",":","/","/","h">>

T_NoHost == <<"h","t","t","p",":","/","/">>

T_IIIFManifest == <<"I","I","I","F"," ","M","a","n","i","f","e","s","t">>

T_iiif_manifest == <<"i","i","i","f","_","m","a","n","i","f","e","s","t">>

T_IIIFmanifest == <<"I","I","I","F","m","a","n","i","f","e","s","t">>

T_OpenIIIFManifest ==
    <<" ","O","p","e","n"," ","I","I","I","F"," ","-","\n","m","a","n","i","f","e","s","t"," ">>

T_Download == <<"D","o","w","n","l","o","a","d">>

Node(tagName, textContent, title, ariaLabel, href, dataHref) ==
    [tagName |-> tagName, textContent |-> textContent, title |-> title,
     ariaLabel |-> ariaLabel, href |-> href, dataHref |-> dataHref]

\* Elements matched by "a, [role='link']".
NodeSamples ==
    {Node("A", T_IIIFManifest, Null, Null, JStr(T_MUrl), Null),
     Node("A", T_OpenIIIFManifest, Null, Null, JStr(<<"m">>), Null),
     Node("A", T_iiif_manifest, Null, Null, JStr(T_MUrlCaps), JStr(T_EUrl)),
     Node("A", <<" ">>, JStr(<<>>), JStr(T_IIIFmanifest), JStr(<<"/","d","/","m">>), Null),
     Node("SPAN", <<>>, JStr(T_IIIFManifest), Null, JStr(T_MUrl), JStr(T_EUrl)),
     Node("A", T_IIIFManifest, Null, Null, JStr(<<>>), JStr(T_HostOnly)),
     Node("A", T_iiif_manifest, Null, Null, JStr(T_NoHost), Null),
     Node("SPAN", T_IIIFmanifest, Null, Null, JStr(T_MUrl), Null),
     Node("A", T_Download, Null, JStr(T_IIIFManifest), JStr(T_MUrl), Null)}

MaxNodes == 3

SniffInit ==
    /\ PipeIdle
    /\ CliIdle
    /\ CallIdle
    /\ nodes \in SeqsUpTo(NodeSamples, MaxNodes)
    /\ location \in {Undef, JStr(T_PageUrl)}

Call_sniffManifestUrls ==
    /\ op = "none"
    /\ op' = "sniffManifestUrls"
    /\ ret' = Returned(sniffManifestUrls)
    /\ UNCHANGED <<manifest, manifestUrl, arg>>
    /\ UNCHANGED pipeVars
    /\ UNCHANGED cliVars
    /\ UNCHANGED domVars

SniffNext == Call_sniffManifestUrls

SniffSpec == SniffInit /\ [][SniffNext]_vars

-----------------------------------------------------------------------------
(* The drivers' tally (main of both command-line programs).                *)

\* const failed = total - success, with total = urls.length and
\* success = items.length
ReportedFailed == Len(manifestUrls) - Len(items)

-----------------------------------------------------------------------------
(* Properties of the retrieval pipeline (specification Spec).              *)

RECURSIVE ExpectedItems(_)
\* The records of the positions 1..n whose retrieval and conversion succeeded,
\* in input order, each converted from the manifest served for that position.
ExpectedItems(n) ==
    IF n = 0 THEN <<>>
    ELSE IF outcome[n] = "ok"
         THEN Append(ExpectedItems(n - 1), RecordOf[served[n], manifestUrls[n]])
         ELSE ExpectedItems(n - 1)

\* The positions of non-falsy URLs below n, ascending.
RECURSIVE TruthyPositions(_)
TruthyPositions(n) ==
    IF n = 0 THEN <<>>
    ELSE IF Truthy(manifestUrls[n]) THEN Append(TruthyPositions(n - 1), n)
         ELSE TruthyPositions(n - 1)

\* C1: the result holds exactly the records of the non-falsy URLs whose
\* retrieval and conversion succeeded, in input order; a failure only marks
\* its own position as failed, the loop goes on to the next URL, every URL
\* before the loop position has been skipped (falsy) or settled (non-falsy),
\* and the call returns only when the whole list has been processed.
C1_BatchKeepsSuccessesInOrder ==
    /\ items = ExpectedItems(Len(manifestUrls))
    /\ \A k \in 1..Len(manifestUrls) :
          IF k >= idx THEN outcome[k] = "pending"
          ELSE IF Truthy(manifestUrls[k]) THEN outcome[k] \in {"ok", "failed"}
          ELSE outcome[k] = "skipped"
    /\ issued = TruthyPositions(IF pc \in {"await_fetch", "await_text"}
                                THEN idx ELSE idx - 1)
    /\ pc = "done" => idx = Len(manifestUrls) + 1

\* C1 witness: [A ok, B fails, C ok] has returned exactly two records, the
\* first converted from the first URL's manifest, the second from the third's.
C1_Witness ==
    /\ pc = "done"
    /\ Len(manifestUrls) = 3
    /\ outcome = <<"ok", "failed", "ok">>
    /\ Len(items) = 2
    /\ items[1] = RecordOf[served[1], manifestUrls[1]]
    /\ items[2] = RecordOf[served[3], manifestUrls[3]]
    /\ items[1].title = T_MS1

\* The number of URLs whose retrieval or conversion failed.
FailedCount == Cardinality({k \in 1..Len(manifestUrls) : outcome[k] = "failed"})

\* C2: when the call has returned, the failure count the drivers report
\* (input length minus result length) equals the number of URLs whose
\* retrieval or conversion failed.
C2_ReportedFailuresAreFailures == pc = "done" => ReportedFailed = FailedCount

\* C3: retrievals are strictly sequential: at most one is in flight, it is
\* the one of the loop position, and it was issued only after every earlier
\* position had been skipped or settled.
C3_RetrievalsSequential ==
    /\ Cardinality(inflight) <= 1
    /\ \A k \in inflight :
          /\ k = idx
          /\ pc \in {"await_fetch", "await_text"}
          /\ \A j \in 1..(k - 1) : outcome[j] # "pending"
    /\ pc \in {"await_fetch", "await_text"} => inflight = {idx}

\* C3 witness: the second retrieval is in flight after the first one succeeded.
C3_Witness ==
    /\ pc = "await_fetch"
    /\ idx = 2
    /\ outcome[1] = "ok"
    /\ inflight = {2}
    /\ issued = <<1, 2>>

\* C4: every retrieval in flight (request sent, headers or body awaited) is
\* bounded by the timeout: the timer that fails it can still fire.
C4_RetrievalBoundedByTimeout == inflight # {} => ENABLED TimerFires

\* One step of a call as the retrievals see it: the input list stays as it
\* was, and the only change of the retrievals issued is one more retrieval,
\* of the entry at the loop position, which is not falsy and stands after
\* every position retrieved before.
RetrievalStep ==
    /\ manifestUrls' = manifestUrls
    /\ argument' = argument
    /\ \/ issued' = issued
       \/ /\ issued' = Append(issued, idx)
          /\ idx \in 1..Len(manifestUrls)
          /\ Truthy(manifestUrls[idx])
          /\ \A j \in 1..Len(issued) : issued[j] < idx

\* C29: in one call every non-falsy entry of the input list is retrieved
\* once per occurrence and in input order: each retrieval is of a non-falsy
\* position later than all positions retrieved before (no retry after a
\* failure, no retrieval of a falsy entry, one retrieval for each occurrence
\* of a repeated URL), the input list never changes, and when the call has
\* returned the positions retrieved are exactly the non-falsy ones.
C29_EachEntryRetrievedOnce ==
    /\ [](pc = "done" => /\ Len(issued) = Cardinality({k \in 1..Len(manifestUrls) :
                                                         Truthy(manifestUrls[k])})
                         /\ \A k \in 1..Len(manifestUrls) :
                                Truthy(manifestUrls[k])
                                   <=> \E j \in 1..Len(issued) : issued[j] = k)
    /\ [][RetrievalStep]_vars

\* C29 witness: the same URL twice with a falsy entry between; the first
\* retrieval failed and was not repeated, the second yielded a record, and
\* the falsy entry was not retrieved.
C29_Witness ==
    /\ pc = "done"
    /\ manifestUrls = <<JStr(T_UrlA), JStr(<<>>), JStr(T_UrlA)>>
    /\ argument = JArr(manifestUrls)
    /\ outcome = <<"failed", "skipped", "ok">>
    /\ issued = <<1, 3>>
    /\ Len(items) = 1

\* C29 witness: the same URL twice, retrieved twice, two records.
C29_WitnessTwoRecords ==
    /\ pc = "done"
    /\ manifestUrls = <<JStr(T_UrlA), JStr(T_UrlA)>>
    /\ issued = <<1, 2>>
    /\ Len(items) = 2

-----------------------------------------------------------------------------
(* Properties of the conversion functions (specification ConvSpec).        *)

Converted == op = "manifestToCSLItem" /\ ~ret.thrown

\* C5: title and id of a produced record are never empty; title is the
\* label when there is one, else the manifest @id, else the manifest id,
\* else the source URL, else the placeholder; id is the title when the
\* manifest has no identifier and no source URL.
C5_TitleAndIdNeverEmpty ==
    Converted =>
        LET label == iiifLabelToString(manifest.label)
            IsText(v) == v.t = "str" /\ v.s # <<>>
        IN  /\ ret.v.title # <<>>
            /\ ret.v.id # <<>>
            /\ label # <<>> => ret.v.title = label
            /\ (label = <<>> /\ IsText(manifest.atid)) => ret.v.title = manifest.atid.s
            /\ (label = <<>> /\ manifest.atid = Undef /\ IsText(manifest.id))
                  => ret.v.title = manifest.id.s
            /\ (label = <<>> /\ manifest.atid = Undef /\ manifest.id = Undef
                  /\ IsText(manifestUrl)) => ret.v.title = manifestUrl.s
            /\ (label = <<>> /\ manifest.atid = Undef /\ manifest.id = Undef
                  /\ manifestUrl = Undef) => ret.v.title = S_untitled
            /\ (manifest.atid = Undef /\ manifest.id = Undef /\ manifestUrl = Undef)
                  => ret.v.id = ret.v.title

\* C5 witness: a manifest with no label, no @id, no id and no source URL was
\* converted, and both fields hold the placeholder.
C5_Witness ==
    /\ Converted
    /\ iiifLabelToString(manifest.label) = <<>>
    /\ manifest.atid = Undef /\ manifest.id = Undef /\ manifestUrl = Undef
    /\ ret.v.title = S_untitled
    /\ ret.v.id = S_untitled

\* C6: manifestToCSLItem never throws, whatever the manifest holds.
C6_ManifestToCSLItemNeverThrows == op = "manifestToCSLItem" => ~ret.thrown

\* C7: optional keys are present exactly when their value is known: author
\* iff at least one author was extracted, issued iff the extracted date is
\* non-empty, publisher iff the extracted publisher is non-empty; and none of
\* author, issued, publisher, note is present with an empty value.
C7_OptionalKeysByPresence ==
    Converted =>
        LET keys == DOMAIN ret.v
        IN  /\ {"id", "type", "title", "URL"} \subseteq keys
            /\ keys \subseteq {"id", "type", "title", "URL",
                               "author", "issued", "publisher", "note"}
            /\ "author" \in keys <=> Len(extractAuthors(manifest).v) > 0
            /\ "issued" \in keys <=> extractDate(manifest).v # <<>>
            /\ "publisher" \in keys <=> extractPublisher(manifest).v # <<>>
            /\ "author" \in keys => ret.v.author # <<>>
            /\ "issued" \in keys =>
                  /\ Len(ret.v.issued["date-parts"]) = 1
                  /\ Len(ret.v.issued["date-parts"][1]) = 1
                  /\ ret.v.issued["date-parts"][1][1] # <<>>
            /\ "publisher" \in keys => ret.v.publisher # <<>>
            /\ "note" \in keys => ret.v.note # <<>>

\* C7 witness: a record with authors and a date but no publisher.
C7_Witness ==
    /\ Converted
    /\ "author" \in DOMAIN ret.v
    /\ "issued" \in DOMAIN ret.v
    /\ "publisher" \notin DOMAIN ret.v

\* The metadata entries a lookup on the current manifest iterates.
LookupEntries == IterationOf(MetadataOf(manifest))

\* Entry k answers candidate c: its label equals c up to case and its value
\* is non-empty.
Answers(k, c) ==
    /\ ~PropertyReadThrows(LookupEntries[k])
    /\ ToLowerCase(iiifLabelToString(Get(LookupEntries[k], "label"))) = ToLowerCase(c)
    /\ iiifLabelToString(Get(LookupEntries[k], "value")) # <<>>

\* The entries that answer some candidate of the call.
AnsweringEntries ==
    {k \in 1..Len(LookupEntries) : \E j \in 1..Len(arg) : Answers(k, arg[j])}

Looked == op = "getFirstMetadataValue" /\ ~ret.thrown

\* C8 (as stated): the entry answering the earliest candidate of the
\* candidate list wins, whatever the entries' order in the document.
C8_CandidateOrderDecides ==
    (Looked /\ AnsweringEntries # {}) =>
        LET answered == {j \in 1..Len(arg) :
                            \E k \in 1..Len(LookupEntries) : Answers(k, arg[j])}
            best == CHOOSE j \in answered : \A i \in answered : j <= i
        IN  \E k \in 1..Len(LookupEntries) :
                /\ Answers(k, arg[best])
                /\ ret.v = iiifLabelToString(Get(LookupEntries[k], "value"))

\* C8 (amended): the document order decides: the value returned is that of
\* the first entry of the metadata list that answers any candidate, whatever
\* the order of the candidates; "" when no entry answers.
C8_DocumentOrderDecides ==
    Looked =>
        IF AnsweringEntries = {} THEN ret.v = <<>>
        ELSE LET first == CHOOSE k \in AnsweringEntries :
                              \A j \in AnsweringEntries : k <= j
             IN  ret.v = iiifLabelToString(Get(LookupEntries[first], "value"))

\* C8 witness: a Creator entry placed before an author entry, candidates
\* [Author, Creator]: the Creator entry's value is returned.
C8_Witness ==
    /\ Looked
    /\ arg = <<S_Author, S_Creator>>
    /\ manifest.metadata = JArr(<<Entry(JStr(S_Creator), JStr(T_JaneMaryDoe)),
                                  Entry(JStr(S_author), JStr(T_DoeSmith))>>)
    /\ ret.v = T_JaneMaryDoe

\* The text type inference reads: normalized label, description and Type
\* metadata value of the current manifest, lower-cased.
TypeText ==
    ToLowerCase(iiifLabelToString(manifest.label)) \o <<" ">>
    \o ToLowerCase(iiifLabelToString(manifest.description)) \o <<" ">>
    \o ToLowerCase(getFirstMetadataValue(manifest, <<S_Type>>).v)

Inferred == op = "inferTypeFromMetadata" /\ ~ret.thrown

\* C9: the inferred type is one of manuscript, article-journal, book; the
\* manuscript rule is tried first (a text matching both a manuscript and a
\* journal pattern gives manuscript, e.g. a label holding "manuscript" and
\* "journal"); book is returned exactly when neither rule matches.
C9_TypeVocabularyAndPriority ==
    Inferred =>
        /\ ret.v \in {S_manuscript, S_article_journal, S_book}
        /\ (ManuscriptRE(TypeText) /\ ArticleRE(TypeText)) => ret.v = S_manuscript
        /\ (/\ Contains(ToLowerCase(iiifLabelToString(manifest.label)), S_manuscript)
            /\ Contains(ToLowerCase(iiifLabelToString(manifest.label)), S_journal))
              => ret.v = S_manuscript
        /\ ret.v = S_book <=> (~ManuscriptRE(TypeText) /\ ~ArticleRE(TypeText))

\* C9 witness: the label "Journal of Manuscripts" was classified manuscript.
C9_Witness ==
    /\ Inferred
    /\ manifest.label = JStr(T_JournalOfManuscripts)
    /\ ret.v = S_manuscript

\* The creator value extractAuthors found on the current manifest.
CreatorsRaw == getFirstMetadataValue(manifest, AuthorCandidates).v

\* The positions where a piece of raw starts: a character that is no
\* separator, at the start or right after a separator.
PieceStarts(raw) ==
    {k \in 1..Len(raw) :
        /\ raw[k] \notin {";", "\n"}
        /\ (k = 1 \/ raw[k - 1] \in {";", "\n"})}

\* The piece of raw starting at k, trimmed.
PieceAt(raw, k) ==
    LET ends == {j \in k..Len(raw) : \A i \in k..j : raw[i] \notin {";", "\n"}}
        last == CHOOSE j \in ends : \A i \in ends : j >= i
    IN  Trim(SubSeq(raw, k, last))

\* The starts of the pieces of raw that are not blank.
NameStarts(raw) == {k \in PieceStarts(raw) : PieceAt(raw, k) # <<>>}

\* The n-th non-blank piece of raw, given the starts of its non-blank pieces.
NthName(raw, starts, n) ==
    PieceAt(raw, CHOOSE k \in starts : Cardinality({j \in starts : j <= k}) = n)

NoSpaces(str) == SelectSeq(str, LAMBDA c : ~IsSpace(c))

\* Author a is the split of the trimmed, non-empty name p.
IsSplitOf(a, p) ==
    LET spaces == {k \in 1..Len(p) : IsSpace(p[k])}
    IN  IF spaces = {}
        THEN DOMAIN a = {"family"} /\ a.family = p
        ELSE LET cut == CHOOSE k \in spaces : \A j \in spaces : k >= j
             IN  /\ DOMAIN a = {"given", "family"}
                 /\ a.family = SubSeq(p, cut + 1, Len(p))
                 /\ NoSpaces(a.given) = NoSpaces(SubSeq(p, 1, cut))
                 /\ a.given # <<>>
                 /\ ~IsSpace(a.given[1]) /\ ~IsSpace(a.given[Len(a.given)])
                 /\ \A k \in 1..Len(a.given) :
                       IsSpace(a.given[k]) =>
                           a.given[k] = " " /\ ~IsSpace(a.given[k + 1])

Extracted == op = "extractAuthors" /\ ~ret.thrown

\* C10: the found creator value is split on semicolons and newlines, the
\* pieces are trimmed and the empty ones dropped, and there is one author
\* per remaining piece, in order: a one-word name gives {family}, a longer
\* one gives family = its last word and given = the other words joined by
\* single spaces; no author has an empty family.
C10_AuthorSplitting ==
    Extracted =>
        LET raw    == CreatorsRaw
            starts == NameStarts(raw)
        IN  /\ Len(ret.v) = Cardinality(starts)
            /\ \A n \in 1..Len(ret.v) :
                  /\ IsSplitOf(ret.v[n], NthName(raw, starts, n))
                  /\ ret.v[n].family # <<>>
            /\ raw = T_JaneMaryDoe =>
                  ret.v = <<[given  |-> <<"J","a","n","e"," ","M","a","r","y">>,
                             family |-> <<"D","o","e">>]>>
            /\ raw = T_DoeSmith => Len(ret.v) = 2

\* C10 witness: "Shakespeare\n;  ;A  B" gave the two authors {family:
\* Shakespeare} and {given: A, family: B}.
C10_Witness ==
    /\ Extracted
    /\ CreatorsRaw = T_Ragged
    /\ ret.v = <<[family |-> <<"S","h","a","k","e","s","p","e","a","r","e">>],
                 [given |-> <<"A">>, family |-> <<"B">>]>>

\* The date string extractDate looked up on the current manifest: the value
\* under a date label, else the value under a created/published label.
DateRaw ==
    LET first == getFirstMetadataValue(manifest, DateCandidates).v
    IN  IF first # <<>> THEN first
        ELSE ScanDateLabels(IterationOf(MetadataOf(manifest))).v

\* Four characters that read as a year 1000-1999 or 2000-2099.
IsYear(y) ==
    /\ Len(y) = 4
    /\ \A k \in 1..4 : y[k] \in Digits
    /\ y[1] = "1" \/ (y[1] = "2" /\ y[2] = "0")

\* The positions of raw where four consecutive characters read as a year.
YearStarts(raw) == {k \in 1..(Len(raw) - 3) : IsYear(SubSeq(raw, k, k + 3))}

\* The result is the leftmost year of raw, or raw trimmed when it holds none.
LeftmostYearOrTrimmed(raw, result) ==
    IF YearStarts(raw) = {}
    THEN /\ result = Trim(raw)
         /\ result = raw
    ELSE \E k \in YearStarts(raw) :
            /\ \A j \in YearStarts(raw) : k <= j
            /\ result = SubSeq(raw, k, k + 3)

Dated == op = "extractDate" /\ ~ret.thrown

\* C11 (as stated): the result is the first 4-digit run of the date string
\* lying in 1000-1999 or 2000-2099, else the trimmed string; "Printed in
\* London, 1623" gives "1623" and "circa 1600s" is returned verbatim.
C11_CircaReturnedVerbatim ==
    Dated =>
        LET raw == DateRaw
        IN  /\ LeftmostYearOrTrimmed(raw, ret.v)
            /\ raw = T_London => ret.v = <<"1","6","2","3">>
            /\ raw = T_Circa => ret.v = T_Circa

\* C11 (amended): the result is the leftmost four consecutive digits of the
\* date string that read as a year 1000-1999 or 2000-2099, whatever adjoins
\* them, else the trimmed string; "Printed in London, 1623" gives "1623",
\* "circa 1600s" gives "1600", and "undated" is returned as it is.
C11_LeftmostYearOrTrimmed ==
    Dated =>
        LET raw == DateRaw
        IN  /\ LeftmostYearOrTrimmed(raw, ret.v)
            /\ raw = T_London => ret.v = <<"1","6","2","3">>
            /\ raw = T_Circa => ret.v = <<"1","6","0","0">>
            /\ raw = T_Undated => ret.v = T_Undated

\* C11 witness: the date "circa 1600s" was extracted as "1600".
C11_Witness ==
    /\ Dated
    /\ DateRaw = T_Circa
    /\ ret.v = <<"1","6","0","0">>

\* The four sources of the URL field of the current call, highest priority
\* first: resolved homepage, manifest @id, manifest id, trimmed directory.
UrlSources ==
    <<JStr(extractHomepageURL(manifest)), manifest.atid, manifest.id,
      JStr(trimManifestDirectory(manifestUrl))>>

\* C12: the URL field is the highest-priority source that is present and
\* non-empty (homepage, then @id, then id, then the trimmed directory of the
\* source URL), and "" when there is none: a lower-priority source is used
\* only when every higher-priority one is absent or empty.
C12_UrlPriority ==
    Converted =>
        LET present == {k \in 1..4 : Truthy(UrlSources[k])}
        IN  IF present = {} THEN ret.v.URL = JStr(<<>>)
            ELSE \E k \in present :
                    /\ \A j \in 1..(k - 1) : j \notin present
                    /\ ret.v.URL = UrlSources[k]

\* C12 witness: with @id and id both present and no homepage the URL is the
\* @id; with neither, the trimmed directory of the source URL is reachable too.
C12_Witness ==
    /\ Converted
    /\ extractHomepageURL(manifest) = <<>>
    /\ manifest.atid = JStr(T_AtId)
    /\ manifest.id = JStr(T_x)
    /\ manifestUrl = JStr(T_UrlA)
    /\ ret.v.URL = JStr(T_AtId)

\* The string a source of the identifier yields: its text when it is present,
\* "" when it is absent.
YieldOf(v) == IF v.t \in {"undef", "null"} THEN <<>> ELSE StringOf(v)

\* The four sources of the identifier of the current call, highest priority
\* first: manifest @id, manifest id, source URL, normalized label.
IdSources ==
    <<YieldOf(manifest.atid), YieldOf(manifest.id), YieldOf(manifestUrl),
      iiifLabelToString(manifest.label)>>

\* C13: extractIdFromManifest returns the first non-empty of @id, id, source
\* URL and normalized label, and "" when all four are empty; so the result is
\* non-empty whenever one of the four yields a non-empty string.
C13_FirstNonEmptyIdSource ==
    op = "extractIdFromManifest" =>
        LET nonEmpty == {k \in 1..4 : IdSources[k] # <<>>}
        IN  IF nonEmpty = {} THEN ret.v = <<>>
            ELSE \E k \in nonEmpty :
                    /\ \A j \in 1..(k - 1) : j \notin nonEmpty
                    /\ ret.v = IdSources[k]

\* C20: a call whose argument is no array fails at once with the TypeError:
\* it never enters the loop, issues no retrieval, logs no per-URL error and
\* returns no result (not even an empty one); a call whose argument is an
\* array never fails as a whole.
C20_NonArrayRejectedAtOnce ==
    /\ argument.t # "arr" =>
          /\ pc \in {"call", "threw"}
          /\ issued = <<>>
          /\ inflight = {}
          /\ items = <<>>
          /\ errlog = <<>>
    /\ argument.t = "arr" => pc # "threw"

\* C20 witness: the call with a single URL string in place of a list was
\* rejected before anything was retrieved.
C20_Witness ==
    /\ argument = JStr(T_UrlA)
    /\ pc = "threw"
    /\ issued = <<>>

\* A citation record went through cslToZoteroItem and a catalog item came back.
Mapped == op = "cslToZoteroItem" /\ ~ret.thrown

\* C14: for a record whose type is a string or missing, itemType is the
\* table entry of the lower-cased type (book, journalArticle, manuscript) and
\* "book" for every other or missing type, so it is always one of the three
\* strings.
C14_ItemTypeFromTable ==
    (Mapped /\ Get(arg, "type").t \in {"undef", "str"}) =>
        LET type == Get(arg, "type")
            t    == IF type.t = "str" THEN ToLowerCase(type.s) ELSE <<>>
        IN  ret.v.itemType =
                JStr(IF t = S_article_journal THEN S_journalArticle
                     ELSE IF t = S_manuscript THEN S_manuscript
                     ELSE S_book)

\* The trimmed text of an author's field, empty when the field is missing.
AuthorPart(a, key) ==
    LET v == Get(a, key) IN IF v.t = "str" THEN Trim(v.s) ELSE <<>>

\* C15: the creators are the authors with some non-empty trimmed field, in
\* the authors' order; firstName is the given name and lastName the family
\* name (the given name when there is no family name) when either is there,
\* and otherwise firstName is "" and lastName the literal; no creator has an
\* empty lastName and every creatorType is "author".
C15_CreatorsFromAuthors ==
    Mapped =>
        LET author   == Get(arg, "author")
            authors  == IF author.t = "arr" THEN author.e ELSE <<>>
            creators == ret.v.creators
            g(k)     == AuthorPart(authors[k], "given")
            f(k)     == AuthorPart(authors[k], "family")
            l(k)     == AuthorPart(authors[k], "literal")
            kept     == {k \in 1..Len(authors) :
                            g(k) # <<>> \/ f(k) # <<>> \/ l(k) # <<>>}
            nth(n)   == CHOOSE k \in kept : Cardinality({j \in kept : j < k}) = n - 1
        IN  /\ Len(creators) = Cardinality(kept)
            /\ \A n \in 1..Len(creators) :
                  LET k == nth(n)
                      c == creators[n]
                  IN  /\ c.creatorType = <<"a","u","t","h","o","r">>
                      /\ c.lastName # <<>>
                      /\ IF g(k) # <<>> \/ f(k) # <<>>
                         THEN /\ c.firstName = g(k)
                              /\ c.lastName = IF f(k) # <<>> THEN f(k) ELSE g(k)
                         ELSE /\ c.firstName = <<>>
                              /\ c.lastName = l(k)

\* C15 witness: of four authors (given name only, literal only, no field,
\* family name with an empty given name) three became creators, the first
\* with the given name in both slots, the second from the literal.
C15_Witness ==
    /\ Mapped
    /\ Get(arg, "author").t = "arr"
    /\ Len(Get(arg, "author").e) = 4
    /\ Len(ret.v.creators) = 3
    /\ ret.v.creators[1].firstName = T_Plato
    /\ ret.v.creators[1].lastName = T_Plato
    /\ ret.v.creators[2].firstName = <<>>
    /\ ret.v.creators[2].lastName = T_Lib
    /\ ret.v.creators[3].lastName = T_Smith

\* The text of a month or day: at least two characters, ending in the text
\* of the value, filled with zeros on the left.
IsTwoDigits(text, x) ==
    LET str == StringOf(x)
        n   == IF Len(str) >= 2 THEN 0 ELSE 2 - Len(str)
    IN  /\ Len(text) = n + Len(str)
        /\ \A k \in 1..n : text[k] = "0"
        /\ \A k \in 1..Len(str) : text[n + k] = str[k]

\* C16: with [year, month, day] the first date-parts entry, the catalog
\* item has no date field when the year is absent (no issued, no date-parts,
\* no parts, empty year); otherwise date is the year, followed by "-" and
\* the two-digit month when there is a month, followed by "-" and the
\* two-digit day when there are a month and a day.
C16_DateFlattened ==
    Mapped =>
        LET issuedObj == Get(arg, "issued")
            dateParts == IF issuedObj.t = "obj" THEN Get(issuedObj, "date-parts") ELSE Undef
            parts     == IF dateParts.t = "arr" /\ Len(dateParts.e) > 0
                            /\ dateParts.e[1].t = "arr"
                         THEN dateParts.e[1].e ELSE <<>>
            part(k)   == IF k <= Len(parts) THEN parts[k] ELSE Undef
            present(x) == x.t \notin {"undef", "null"}
            y == part(1)
            m == part(2)
            d == part(3)
        IN  IF ~Truthy(y) THEN "date" \notin DOMAIN ret.v
            ELSE /\ "date" \in DOMAIN ret.v
                 /\ LET date == ret.v.date
                        ylen == Len(StringOf(y))
                    IN  /\ SubSeq(date, 1, ylen) = StringOf(y)
                        /\ IF ~present(m) THEN Len(date) = ylen
                           ELSE /\ Len(date) > ylen
                                /\ date[ylen + 1] = "-"
                                /\ IF ~present(d)
                                   THEN IsTwoDigits(SubSeq(date, ylen + 2, Len(date)), m)
                                   ELSE \E cut \in (ylen + 2)..Len(date) :
                                          /\ date[cut] = "-"
                                          /\ IsTwoDigits(SubSeq(date, ylen + 2, cut - 1), m)
                                          /\ IsTwoDigits(SubSeq(date, cut + 1, Len(date)), d)

\* C16 witness: the parts [2020, 11, 3] became "2020-11-03".
C16_Witness ==
    /\ Mapped
    /\ "date" \in DOMAIN ret.v
    /\ ret.v.date = <<"2","0","2","0","-","1","1","-","0","3">>

\* C16 witness of the omitted field: a record with an empty year, or with a
\* day but neither year nor month, was mapped to an item without a date.
C16_WitnessOmitted ==
    /\ Mapped
    /\ Get(arg, "issued").t = "obj"
    /\ "date" \notin DOMAIN ret.v

\* C17: once the run has ended after an upload was attempted (accepted,
\* rejected by the API, or failed with an exception), the items mapped
\* locally have been written to the --out file or stdout, unless the write
\* itself failed.
C17_OutputWrittenWhateverUpload ==
    (cliPc = "exited" /\ upload \in {"ok", "rejected", "threw"}
        /\ written.state # "failed") =>
        /\ written.state = "done"
        /\ written.items = zoteroItems

\* r is x without the white space at its two ends, the rest as it was.
IsTrimOf(r, x) ==
    /\ r # <<>> => ~IsSpace(r[1]) /\ ~IsSpace(r[Len(r)])
    /\ \E a \in 0..Len(x) :
          /\ a + Len(r) <= Len(x)
          /\ SubSeq(x, a + 1, a + Len(r)) = r
          /\ \A k \in 1..a : IsSpace(x[k])
          /\ \A k \in (a + Len(r) + 1)..Len(x) : IsSpace(x[k])

\* C19: for a string label x, normalizing the normalized label changes
\* nothing, and the normalized label is x trimmed, its content otherwise as
\* it was.
C19_LabelNormalizationIdempotent ==
    (op = "iiifLabelToString" /\ manifest.label.t = "str") =>
        /\ iiifLabelToString(JStr(ret.v)) = ret.v
        /\ IsTrimOf(ret.v, manifest.label.s)

\* C19 witness: the label "\n  MS 1  " was normalized to "MS 1".
C19_Witness ==
    /\ op = "iiifLabelToString"
    /\ manifest.label = JStr(T_PaddedMS1)
    /\ ret.v = T_MS1

\* C21: the value returned is the normalized value of an entry whose
\* normalized label equals a candidate up to case and whose value is
\* non-empty, and no earlier entry is such an entry (an earlier entry with a
\* matching label has an empty value and was passed over); "" is returned
\* exactly when there is no such entry, as when the metadata is absent or
\* empty.
C21_FirstNonEmptyMatch ==
    (op = "getFirstMetadataValue" /\ ~ret.thrown) =>
        LET entries  == IF manifest.metadata.t = "arr" THEN manifest.metadata.e ELSE <<>>
            label(k) == ToLowerCase(iiifLabelToString(Get(entries[k], "label")))
            value(k) == iiifLabelToString(Get(entries[k], "value"))
            hit(k)   == /\ \E j \in 1..Len(arg) : label(k) = ToLowerCase(arg[j])
                        /\ value(k) # <<>>
        IN  /\ ret.v = <<>> <=> ~\E k \in 1..Len(entries) : hit(k)
            /\ ret.v # <<>> =>
                  \E k \in 1..Len(entries) :
                      /\ hit(k)
                      /\ ret.v = value(k)
                      /\ \A i \in 1..(k - 1) : ~hit(i)

\* C21 witness: an Author entry with a blank value precedes a Creator entry;
\* the lookup passed over the first and returned the value of the second.
C21_Witness ==
    /\ op = "getFirstMetadataValue"
    /\ ~ret.thrown
    /\ manifest.metadata = JArr(<<Entry(JStr(S_Author), JStr(T_Blank)),
                                  Entry(JStr(S_Creator), JStr(T_JaneMaryDoe))>>)
    /\ arg = <<S_Author, S_Creator>>
    /\ ret.v = T_JaneMaryDoe

\* A value is non-empty: a string with a character that is no white space,
\* or a list holding such a string.
NonBlank(v) ==
    \/ v.t = "str" /\ Trim(v.s) # <<>>
    \/ v.t = "arr" /\ \E j \in 1..Len(v.e) : v.e[j].t = "str" /\ Trim(v.e[j].s) # <<>>

\* C22 (as stated): every value under every key of an object label
\* contributes, so an object label with a non-empty value is never
\* normalized to "".
C22_EveryValueContributes ==
    (op = "iiifLabelToString" /\ manifest.label.t = "obj"
        /\ \E k \in 1..Len(manifest.label.e) : NonBlank(manifest.label.e[k])) =>
        ret.v # <<>>

\* C22 (amended): the result is the texts of the truthy elements of the
\* values that are lists, in key-then-list order, joined by single spaces
\* and trimmed; a value that is no list contributes nothing; an object label
\* with a non-blank string inside a list value is never normalized to "".
C22_ListValuesContribute ==
    (op = "iiifLabelToString" /\ manifest.label.t = "obj") =>
        LET label  == manifest.label
            width  == 100
            places == {k * width + j : k \in 1..Len(label.e), j \in 1..(width - 1)}
            used   == {p \in places :
                          LET v == label.e[p \div width]
                          IN  /\ v.t = "arr"
                              /\ p % width <= Len(v.e)
                              /\ Truthy(v.e[p % width])}
            nth(n) == CHOOSE p \in used : Cardinality({q \in used : q < p}) = n - 1
            pieces == [n \in 1..Cardinality(used) |->
                          StringOf(label.e[nth(n) \div width].e[nth(n) % width])]
        IN  /\ ret.v = Trim(Join(pieces, <<" ">>))
            /\ (\E k \in 1..Len(label.e) : label.e[k].t = "arr" /\ NonBlank(label.e[k]))
                  => ret.v # <<>>

\* C22 witness: a label with lists under two keys and a string under a
\* third was normalized to the list elements alone, in key-then-list order.
C22_Witness ==
    /\ op = "iiifLabelToString"
    /\ manifest.label.t = "obj"
    /\ Len(manifest.label.ks) = 3
    /\ ret.v = T_Book \o <<" ">> \o T_Livre \o <<" ", "7">>

\* C23 (as stated): manuscript exactly when the text contains manuscript,
\* codex or ms as a substring; otherwise article-journal exactly when it
\* contains article, journal or periodical; otherwise book.
C23_SubstringClassification ==
    Inferred =>
        LET h    == TypeText
            has(w) == \E k \in 1..(Len(h) - Len(w) + 1) : SubSeq(h, k, k + Len(w) - 1) = w
            ms   == has(S_manuscript) \/ has(S_codex) \/ has(S_ms)
            art  == has(S_article) \/ has(S_journal) \/ has(S_periodical)
        IN  /\ ret.v = S_manuscript <=> ms
            /\ ret.v = S_article_journal <=> (~ms /\ art)
            /\ ret.v = S_book <=> (~ms /\ ~art)

\* C23 (amended): as stated, except that ms counts only where the text ends
\* after it or a character other than a letter, a digit or "_" follows it.
C23_WordBoundaryClassification ==
    Inferred =>
        LET h    == TypeText
            has(w) == \E k \in 1..(Len(h) - Len(w) + 1) : SubSeq(h, k, k + Len(w) - 1) = w
            word == {LowerLetters[k] : k \in 1..26}
                    \cup {"0","1","2","3","4","5","6","7","8","9","_"}
            msb  == \E k \in 1..(Len(h) - 1) :
                        /\ h[k] = "m" /\ h[k + 1] = "s"
                        /\ (k + 1 = Len(h) \/ h[k + 2] \notin word)
            ms   == has(S_manuscript) \/ has(S_codex) \/ msb
            art  == has(S_article) \/ has(S_journal) \/ has(S_periodical)
        IN  /\ ret.v = S_manuscript <=> ms
            /\ ret.v = S_article_journal <=> (~ms /\ art)
            /\ ret.v = S_book <=> (~ms /\ ~art)

\* C23 witness: the description "msx" (ms inside a word) gave book, and
\* nothing else of the manifest could have decided the type.
C23_Witness ==
    /\ Inferred
    /\ manifest.description = JStr(T_msx)
    /\ manifest.label = Undef
    /\ manifest.metadata = Undef
    /\ ret.v = S_book

\* C23 witness of the boundary: the label "MS 1" gave manuscript.
C23_WitnessBoundary ==
    /\ Inferred
    /\ manifest.label = JStr(T_MS1)
    /\ manifest.description = Undef
    /\ ret.v = S_manuscript

\* A label reads as a created/published phrase: one of the words created,
\* published, or two of them with hyphens, slashes or white space between.
IsCreatedPublishedPhrase(labelStr) ==
    LET l     == ToLowerCase(labelStr)
        words == {S_created, S_published}
    IN  \/ l \in words
        \/ \E w1 \in words, w2 \in words :
              /\ Len(l) > Len(w1) + Len(w2)
              /\ SubSeq(l, 1, Len(w1)) = w1
              /\ SubSeq(l, Len(l) - Len(w2) + 1, Len(l)) = w2
              /\ \A k \in (Len(w1) + 1)..(Len(l) - Len(w2)) :
                    l[k] \in {"-", "/", " ", "\n", "\t", "\r"}

\* C24: the source string is the value of the first entry labeled Date,
\* Publication Date or Issued (in any case) with a non-empty value, wherever
\* it stands; when there is none, the value of the first entry with a
\* created/published label and a non-empty value; when there is none either,
\* the result is "". Entries labeled Created by, Published by or Published
\* for are never the source.
C24_DateLabelsBeforeCreatedPublished ==
    (Dated /\ manifest.metadata.t = "arr") =>
        LET entries  == manifest.metadata.e
            label(k) == iiifLabelToString(Get(entries[k], "label"))
            value(k) == iiifLabelToString(Get(entries[k], "value"))
            trusted  == {k \in 1..Len(entries) :
                            /\ ToLowerCase(label(k)) \in
                                  {S_date, ToLowerCase(S_PublicationDate), ToLowerCase(S_Issued)}
                            /\ value(k) # <<>>}
            fallback == {k \in 1..Len(entries) :
                            IsCreatedPublishedPhrase(label(k)) /\ value(k) # <<>>}
            first(S) == CHOOSE k \in S : \A j \in S : k <= j
            named    == {k \in 1..Len(entries) :
                            ToLowerCase(label(k)) \in
                                {ToLowerCase(T_CreatedBy), ToLowerCase(T_PublishedBy),
                                 ToLowerCase(T_PublishedFor)}}
        IN  /\ IF trusted # {} THEN LeftmostYearOrTrimmed(value(first(trusted)), ret.v)
               ELSE IF fallback # {} THEN LeftmostYearOrTrimmed(value(first(fallback)), ret.v)
               ELSE ret.v = <<>>
            /\ named \cap fallback = {}
            /\ (\A k \in 1..Len(entries) : k \in named) => ret.v = <<>>

\* C24 witness: a Created/Published entry ("circa 1600s") stands before an
\* ISSUED entry ("Printed in London, 1623"); the date came from the latter.
C24_Witness ==
    /\ Dated
    /\ manifest.metadata = JArr(<<Entry(JStr(T_CreatedPublished), JStr(T_Circa)),
                                  Entry(JStr(T_ISSUED), JStr(T_London))>>)
    /\ ret.v = <<"1","6","2","3">>

\* C24 witness of the fallback: a Created by entry stands before a
\* Published - created entry; the date came from the latter.
C24_WitnessFallback ==
    /\ Dated
    /\ manifest.metadata = JArr(<<Entry(JStr(T_CreatedBy), JStr(<<"1","8","5","0">>)),
                                  Entry(JStr(T_PublishedCreated), JStr(<<"1","7","0","1">>))>>)
    /\ ret.v = <<"1","7","0","1">>

\* What an object contributes to the landing page: its id, else its @id,
\* else its href, the first of them that is a string.
LinkIdOf(o) ==
    LET keys  == <<"id", "@id", "href">>
        texts == {k \in 1..3 : Get(o, keys[k]).t = "str"}
    IN  IF o.t # "obj" \/ texts = {} THEN <<>>
        ELSE Get(o, keys[CHOOSE k \in texts : \A j \in texts : k <= j]).s

\* What a homepage or related field contributes: a string itself, a list
\* its first element alone, an object its id / @id / href.
LinkOf(field) ==
    CASE field.t = "str" -> field.s
      [] field.t = "arr" /\ field.e # <<>> ->
            IF field.e[1].t = "str" THEN field.e[1].s ELSE LinkIdOf(field.e[1])
      [] field.t = "obj" -> LinkIdOf(field)
      [] OTHER -> <<>>

\* C25: with H and R what homepage and related contribute, the result is H
\* when H is non-empty; it differs from H only when homepage resolved to
\* nothing, and is then R; it is "" when neither resolves. The source URL of
\* the call has no part in it.
C25_HomepageBeforeRelated ==
    op = "extractHomepageURL" =>
        LET H == LinkOf(manifest.homepage)
            R == LinkOf(manifest.related)
        IN  /\ H # <<>> => ret.v = H
            /\ ret.v # H => (H = <<>> /\ ret.v = R)
            /\ (H = <<>> /\ R = <<>>) => ret.v = <<>>
            /\ ret.v \in {H, R, <<>>}

\* C25 witness: the first element of the homepage list has no id (the
\* second element is a URL), related is an object with an href: the href was
\* returned, in a call that was given a source URL.
C25_Witness ==
    /\ op = "extractHomepageURL"
    /\ manifest.homepage = JArr(<<JObj(<<>>, <<>>), JStr(T_Home)>>)
    /\ manifest.related = JObj(<<"href">>, <<JStr(T_Rel)>>)
    /\ manifestUrl = JStr(T_UrlA)
    /\ ret.v = T_Rel

\* The note with one `label: value` line for each of the entries `shown`
\* (positions of the metadata list, in document order): heading and rule, an
\* empty line, the Manifest URL, @id and @context lines that apply, and,
\* when the list is not empty, an empty line, "IIIF metadata:" and the lines.
NoteWith(shown) ==
    LET entries  == IF manifest.metadata.t = "arr" THEN manifest.metadata.e ELSE <<>>
        label(k) == iiifLabelToString(Get(entries[k], "label"))
        value(k) == iiifLabelToString(Get(entries[k], "value"))
        nth(n)   == CHOOSE k \in shown : Cardinality({j \in shown : j < k}) = n - 1
        line(k)  == (IF label(k) = <<>> THEN <<"?">> ELSE label(k))
                    \o <<":", " ">> \o value(k)
        lines    == <<<<"I","I","I","F"," ","m","a","n","i","f","e","s","t"," ","m","e","t","a","d","a","t","a">>,
                      <<"=","=","=","=","=","=","=","=","=","=","=","=","=","=","=","=","=","=","=","=","=","=">>,
                      <<>>>>
                    \o (IF Truthy(manifestUrl)
                        THEN <<<<"M","a","n","i","f","e","s","t"," ","U","R","L",":"," ">> \o StringOf(manifestUrl)>>
                        ELSE <<>>)
                    \o (IF Truthy(manifest.atid)
                        THEN <<<<"@","i","d",":"," ">> \o StringOf(manifest.atid)>>
                        ELSE <<>>)
                    \o (IF Truthy(manifest.context)
                        THEN <<<<"@","c","o","n","t","e","x","t",":"," ">> \o StringOf(manifest.context)>>
                        ELSE <<>>)
                    \o (IF entries # <<>>
                        THEN <<<<>>, <<"I","I","I","F"," ","m","e","t","a","d","a","t","a",":">>>>
                             \o [n \in 1..Cardinality(shown) |-> line(nth(n))]
                        ELSE <<>>)
    IN  Trim(Join(lines, <<"\n">>))

Noted ==
    /\ op = "buildIiifNote"
    /\ ~ret.thrown
    /\ manifest.metadata.t \in {"undef", "arr"}

\* C26 (as stated): the note holds one `label: value` line for every
\* metadata entry, so as many such lines as there are entries.
C26_OneLinePerEntry ==
    Noted =>
        LET n == IF manifest.metadata.t = "arr" THEN Len(manifest.metadata.e) ELSE 0
        IN  ret.v = NoteWith(1..n)

\* C26 (amended): the note holds one `label: value` line for every metadata
\* entry whose normalized label or value is non-empty, in document order,
\* with "?" for an empty label; an entry with neither has no line.
C26_OneLinePerNonEmptyEntry ==
    Noted =>
        LET entries == IF manifest.metadata.t = "arr" THEN manifest.metadata.e ELSE <<>>
        IN  ret.v = NoteWith({k \in 1..Len(entries) :
                                \/ iiifLabelToString(Get(entries[k], "label")) # <<>>
                                \/ iiifLabelToString(Get(entries[k], "value")) # <<>>})

\* C26 witness: of four entries (a dated one, one with neither label nor
\* value, one with a value only, one with a label only) three have a line.
C26_Witness ==
    /\ Noted
    /\ manifest.metadata.t = "arr"
    /\ Len(manifest.metadata.e) = 4
    /\ manifest.label = Undef
    /\ manifest.description = Undef
    /\ ret.v = Join(<<<<"I","I","I","F"," ","m","a","n","i","f","e","s","t"," ","m","e","t","a","d","a","t","a">>,
                      <<"=","=","=","=","=","=","=","=","=","=","=","=","=","=","=","=","=","=","=","=","=","=">>,
                      <<>>,
                      <<"M","a","n","i","f","e","s","t"," ","U","R","L",":"," ","h","t","t","p",":","/","/","h","/","b">>,
                      <<>>,
                      <<"I","I","I","F"," ","m","e","t","a","d","a","t","a",":">>,
                      <<"C","r","e","a","t","e","d","/","P","u","b","l","i","s","h","e","d",":"," ","c","i","r","c","a"," ","1","6","0","0","s">>,
                      <<"?",":"," ","L","i","b">>,
                      <<"A","u","t","h","o","r","s",":">>>>, <<"\n">>)

RECURSIVE MappedUpTo(_)
\* The catalog items of the records 1..n that cslToZoteroItem maps, in order.
MappedUpTo(n) ==
    IF n = 0 THEN <<>>
    ELSE LET r == cslToZoteroItem(cslItems[n])
         IN  IF r.thrown THEN MappedUpTo(n - 1) ELSE Append(MappedUpTo(n - 1), r.v)

\* C28: in the mapping loop of the command-line program the items mapped
\* so far are those of the records passed that can be mapped, in their
\* order, a diagnostic has been logged for each record passed that cannot,
\* and a run that has its records ends only after the loop has passed them
\* all; in iiifManifestUrlsToCSL a manifest retrieved on which
\* manifestToCSLItem throws is logged and left out, the loop goes on, and
\* the records of the other URLs are there in input order.
C28_FailedRecordSkipped ==
    /\ cliPc # "idle" =>
          /\ zoteroItems = MappedUpTo(mapIdx - 1)
          /\ \A k \in 1..Len(cslItems) :
                (\E j \in 1..Len(cliLog) : cliLog[j] = k)
                    <=> (k < mapIdx /\ cslToZoteroItem(cslItems[k]).thrown)
          /\ (cliPc \in {"write", "await_upload", "exited"} /\ cslItems # <<>>)
                => mapIdx = Len(cslItems) + 1
    /\ pc # "idle" =>
          /\ \A k \in 1..Len(manifestUrls) :
                (outcome[k] = "failed" /\ served[k] # 0) =>
                    /\ \E j \in 1..Len(errlog) : errlog[j] = k
                    /\ idx > k
                    /\ pc # "threw"
          /\ items = ExpectedItems(Len(manifestUrls))
          /\ Len(items) = Cardinality({k \in 1..Len(manifestUrls) : outcome[k] = "ok"})

\* C28 witness: the first of two records (null) could not be mapped and was
\* logged; the second was mapped and is the only item written.
C28_Witness ==
    /\ cliPc = "exited"
    /\ Len(cslItems) = 2
    /\ cslItems[1] = Null
    /\ cliLog = <<1>>
    /\ Len(zoteroItems) = 1
    /\ zoteroItems[1] = cslToZoteroItem(cslItems[2]).v
    /\ zoteroItems[1].itemType = JStr(S_journalArticle)
    /\ written = [state |-> "done", items |-> zoteroItems]

\* C28 witness of the retrieval loop: of three URLs the second delivered a
\* manifest on which manifestToCSLItem throws (metadata [null]); the call
\* returned the records of the first and the third.
C28_WitnessPipeline ==
    /\ pc = "done"
    /\ outcome = <<"ok", "failed", "ok">>
    /\ served[2] = 3
    /\ errlog = <<2>>
    /\ Len(items) = 2
    /\ items[2] = RecordOf[served[3], manifestUrls[3]]


-----------------------------------------------------------------------------
(* The sniffer's result.                                                   *)

Sniffed == op = "sniffManifestUrls" /\ ~ret.thrown

\* The candidates that resolve to u, by position.
ResolvingTo(u) ==
    {k \in 1..Len(ret.v.candidates) : ret.v.candidates[k].resolvedHref = JStr(u)}

\* The position of the first candidate that resolves to u.
FirstOccurrence(u) == CHOOSE k \in ResolvingTo(u) : \A j \in ResolvingTo(u) : k <= j

\* The position of the candidate with the shortest label among those that
\* resolve to u, the earliest one on a tie.
ShortestLabel(u) ==
    LET len(k) == Len(ret.v.candidates[k].label)
    IN  CHOOSE k \in ResolvingTo(u) :
            \A j \in ResolvingTo(u) : len(k) < len(j) \/ (len(k) = len(j) /\ k <= j)

\* C27: sniffManifestUrls returns an ordered, de-duplicated list of absolute
\* URLs: no URL appears twice, the URLs are exactly those some candidate
\* resolves to (a candidate that does not resolve contributes nothing), they
\* stand in the order of their first occurrences among the candidates, and
\* the representative kept in `unique` for each URL is the candidate with the
\* shortest label among those resolving to it, the earliest on a tie.
C27_OrderedDeduplicatedUrls ==
    Sniffed =>
        LET cands == ret.v.candidates
            uniq  == ret.v.unique
            urls  == ret.v.manifestUrls
        IN  /\ \A i, j \in 1..Len(urls) : i # j => urls[i] # urls[j]
            /\ \A i \in 1..Len(urls) : UrlParses(urls[i])
            /\ {urls[i] : i \in 1..Len(urls)}
                   = {cands[k].resolvedHref.s :
                         k \in {n \in 1..Len(cands) : cands[n].resolvedHref # Null}}
            /\ \A i, j \in 1..Len(urls) :
                   i < j => FirstOccurrence(urls[i]) < FirstOccurrence(urls[j])
            /\ Len(uniq) = Len(urls)
            /\ \A i \in 1..Len(uniq) : uniq[i] = cands[ShortestLabel(urls[i])]

\* C27 witness: two URLs are returned, and the representative of the first
\* is a later candidate with a shorter label, which stands at the place of
\* the URL's first occurrence.
C27_Witness ==
    /\ Sniffed
    /\ Len(ret.v.manifestUrls) = 2
    /\ Len(ret.v.candidates) = 3
    /\ ret.v.manifestUrls[1] = T_MUrl
    /\ FirstOccurrence(T_MUrl) = 1
    /\ ret.v.unique[1].node = 3

\* C27 witness: three candidates, two of which resolve to the same URL with
\* labels of the same length and one of which does not resolve; the earlier
\* of the two is kept and the unresolved one is dropped.
C27_WitnessTie ==
    /\ Sniffed
    /\ Len(ret.v.candidates) = 3
    /\ ret.v.candidates[3].resolvedHref = Null
    /\ ret.v.candidates[1].resolvedHref = ret.v.candidates[2].resolvedHref
    /\ Len(ret.v.candidates[1].label) = Len(ret.v.candidates[2].label)
    /\ ret.v.candidates[1].label # ret.v.candidates[2].label
    /\ ret.v.manifestUrls = <<T_MUrl>>
    /\ ret.v.unique[1].node = 1


-----------------------------------------------------------------------------
(* The note of a record and the `extra` of the catalog item made of it.    *)

\* The fixed heading line, with the line break that ends it.
HeadingLine == S_NoteHeading \o <<"\n">>

\* C30: every record manifestToCSLItem produces carries a non-empty note
\* that begins with the heading line "IIIF manifest metadata", whatever the
\* manifest and the source URL are; and every catalog item cslToZoteroItem
\* makes of such a record has an `extra` equal to the note of the record
\* made of the same manifest and URL.
C30_NoteAlwaysPresentAndCopied ==
    /\ Converted =>
          /\ "note" \in DOMAIN ret.v
          /\ ret.v.note # <<>>
          /\ StartsWith(ret.v.note, HeadingLine)
    /\ (op = "cslToZoteroItem" /\ ~ret.thrown) =>
          /\ "extra" \in DOMAIN ret.v
          /\ ret.v.extra = JStr(manifestToCSLItem(manifest, manifestUrl).v.note)
          /\ StartsWith(ret.v.extra.s, HeadingLine)

\* C30 witness: the catalog item made of the record of a manifest with no
\* metadata, no @id and no @context, converted without a source URL; its
\* `extra` is the heading and the rule alone.
C30_Witness ==
    /\ op = "cslToZoteroItem"
    /\ ~ret.thrown
    /\ manifestUrl = Undef
    /\ ~Truthy(manifest.atid)
    /\ ~Truthy(manifest.context)
    /\ ~HasPositiveLength(MetadataOf(manifest))
    /\ ret.v.extra = JStr(HeadingLine \o S_NoteRule)

\* C30 witness: a catalog item whose `extra` goes on after the heading with
\* the lines of the manifest's metadata.
C30_WitnessMetadata ==
    /\ op = "cslToZoteroItem"
    /\ ~ret.thrown
    /\ Contains(ret.v.extra.s, S_IIIFmetadata)
    /\ manifestUrl # Undef

====
